---------------------------- MODULE Spec2Model ----------------------------
(***************************************************************************)
(* Model of the email analysis core (src/email_agent.py) and of its HTTP   *)
(* callers (src/main.py).                                                   *)
(*                                                                         *)
(* A Python str is a tuple of one-character strings, so that lower(),      *)
(* strip(), startswith() and the substring test (kw in text) are computed  *)
(* character by character as the code computes them.  A JSON value (an     *)
(* entity value, a field of the model's answer, a field of the returned    *)
(* record) is a tagged record [t, v]; a Python dict is a function from     *)
(* key names to JSON values.                                               *)
(***************************************************************************)
EXTENDS Integers, Sequences, FiniteSets, TLC

VARIABLES
    pc,                  \* position of the request in analyze_email
    hash_seed,           \* the process's string hash seed (fixes set iteration order)
    email_text,          \* analyze_email argument
    additional_details,  \* analyze_email argument (None or a dict)
    request_data,        \* analyze_email argument (None or a dict)
    subject,             \* local of analyze_email
    entities,            \* local of analyze_email: the bag built before the model call
    rule_based_urgency,  \* local of analyze_email
    rule_based_intent,   \* local of analyze_email
    calls,               \* the calls of client.chat.completions.create so far, in order
    response,            \* the completion of the model call that succeeded
    cleaned,             \* local of analyze_email: clean_json_response(content)
    parsed,              \* outcome of json.loads(cleaned) in analyze_email
    result,              \* the record analyze_email returns
    request,             \* the request body an endpoint of src/main.py received
    http_response,       \* the response of that endpoint
    earlier,             \* an earlier run of analyze_email on the same inputs
    service              \* normalize_business_service argument

vars == <<pc, hash_seed, email_text, additional_details, request_data, subject,
          entities, rule_based_urgency, rule_based_intent, calls, response,
          cleaned, parsed, result, request, http_response, earlier, service>>

-----------------------------------------------------------------------------
(* Bounds of the model *)

\* set iteration orders tried for the keyword sets (hash seeds 0..MaxHashSeed)
MaxHashSeed == 2
\* phrases joined into one text for the rule-based classifier
MaxPhrases == 2

-----------------------------------------------------------------------------
(* Python values *)

None == [t |-> "none", v |-> <<>>]
Str(s) == [t |-> "str", v |-> s]
Num(n) == [t |-> "num", v |-> n]
List(l) == [t |-> "list", v |-> l]
Dict(d) == [t |-> "dict", v |-> d]

\* bool(x) for a JSON value
truthy(x) ==
    CASE x.t = "none" -> FALSE
      [] x.t = "str" -> x.v # <<>>
      [] x.t = "num" -> x.v # 0
      [] x.t = "list" -> x.v # <<>>
      [] x.t = "dict" -> DOMAIN x.v # {}

\* isinstance(x, str), isinstance(x, dict), isinstance(x, list)
is_str(x) == x.t = "str"
is_dict(x) == x.t = "dict"
is_list(x) == x.t = "list"

EmptyDict == [k \in {} |-> None]

\* {**a, **b}, and a.update(b) as the value a holds afterwards
update(a, b) ==
    [k \in (DOMAIN a) \cup (DOMAIN b) |-> IF k \in DOMAIN b THEN b[k] ELSE a[k]]

\* a dict without the keys in ks
without(a, ks) == [k \in (DOMAIN a) \ ks |-> a[k]]

Range(s) == {s[i] : i \in 1..Len(s)}

-----------------------------------------------------------------------------
(* str methods *)

UpperCase == <<"A","B","C","D","E","F","G","H","I","J","K","L","M",
               "N","O","P","Q","R","S","T","U","V","W","X","Y","Z">>
LowerCase == <<"a","b","c","d","e","f","g","h","i","j","k","l","m",
               "n","o","p","q","r","s","t","u","v","w","x","y","z">>
Digits == {"0","1","2","3","4","5","6","7","8","9"}
Whitespace == {" ", "\n", "\t"}

to_lower(c) ==
    IF c \in Range(UpperCase)
    THEN LowerCase[CHOOSE i \in 1..26 : UpperCase[i] = c]
    ELSE c
to_upper(c) ==
    IF c \in Range(LowerCase)
    THEN UpperCase[CHOOSE i \in 1..26 : LowerCase[i] = c]
    ELSE c

lower(s) == [i \in 1..Len(s) |-> to_lower(s[i])]
upper(s) == [i \in 1..Len(s) |-> to_upper(s[i])]
capitalize(s) ==
    [i \in 1..Len(s) |-> IF i = 1 THEN to_upper(s[i]) ELSE to_lower(s[i])]

\* (sub in s)
contains(s, sub) ==
    \E i \in 0..(Len(s) - Len(sub)) : SubSeq(s, i + 1, i + Len(sub)) = sub

startswith(s, p) == Len(s) >= Len(p) /\ SubSeq(s, 1, Len(p)) = p
endswith(s, p) == Len(s) >= Len(p) /\ SubSeq(s, Len(s) - Len(p) + 1, Len(s)) = p

\* index of the first occurrence of sub in s, 0 when there is none
find(s, sub) ==
    IF contains(s, sub)
    THEN CHOOSE i \in 1..(Len(s) - Len(sub) + 1) :
            /\ SubSeq(s, i, i + Len(sub) - 1) = sub
            /\ \A j \in 1..(i - 1) : SubSeq(s, j, j + Len(sub) - 1) # sub
    ELSE 0

RECURSIVE lstrip(_, _)
lstrip(s, cs) ==
    IF s # <<>> /\ Head(s) \in cs THEN lstrip(Tail(s), cs) ELSE s
RECURSIVE rstrip(_, _)
rstrip(s, cs) ==
    IF s # <<>> /\ s[Len(s)] \in cs THEN rstrip(SubSeq(s, 1, Len(s) - 1), cs) ELSE s
strip(s) == lstrip(rstrip(s, Whitespace), Whitespace)

\* s.replace(old, ""), old not empty
RECURSIVE remove_all(_, _)
remove_all(s, old) ==
    LET i == find(s, old)
    IN  IF i = 0 THEN s
        ELSE SubSeq(s, 1, i - 1) \o remove_all(SubSeq(s, i + Len(old), Len(s)), old)

\* s.split(sep, 1)
split_once(s, sep) ==
    LET i == find(s, sep)
    IN  IF i = 0 THEN <<s>>
        ELSE <<SubSeq(s, 1, i - 1), SubSeq(s, i + Len(sep), Len(s))>>

-----------------------------------------------------------------------------
(* Enums and keyword tables *)

SentimentEnum == [POSITIVE |-> <<"P","o","s","i","t","i","v","e">>, NEUTRAL |-> <<"N","e","u","t","r","a","l">>, NEGATIVE |-> <<"N","e","g","a","t","i","v","e">>]
UrgencyEnum == [HIGH |-> <<"H","i","g","h">>, MEDIUM |-> <<"M","e","d","i","u","m">>, LOW |-> <<"L","o","w">>]
IntentEnum == [
    REQUEST |-> <<"R","e","q","u","e","s","t">>,
    INFORMATION |-> <<"I","n","f","o","r","m","a","t","i","o","n">>,
    QUESTION |-> <<"Q","u","e","s","t","i","o","n">>,
    TASK_ASSIGNMENT |-> <<"T","a","s","k"," ","A","s","s","i","g","n","m","e","n","t">>,
    FOLLOW_UP |-> <<"F","o","l","l","o","w","-","u","p">>,
    INCIDENT |-> <<"I","n","c","i","d","e","n","t">>,
    CHANGE |-> <<"C","h","a","n","g","e">>,
    PROBLEM |-> <<"P","r","o","b","l","e","m">>,
    OTHER_ |-> <<"O","t","h","e","r">>]   \* OTHER in the source; OTHER is a reserved word here

Values(enum) == {enum[k] : k \in DOMAIN enum}

\* the set literal, in the order it is written
HIGH_URGENCY_KEYWORDS == <<
    <<"u","r","g","e","n","t">>, <<"a","s","a","p">>, <<"i","m","m","e","d","i","a","t","e","l","y">>, <<"e","m","e","r","g","e","n","c","y">>, <<"c","r","i","t","i","c","a","l">>,
    <<"d","e","a","d","l","i","n","e">>, <<"t","o","d","a","y">>, <<"t","o","m","o","r","r","o","w">>, <<"s","o","o","n">>, <<"q","u","i","c","k","l","y">>, <<"r","u","s","h">>,
    <<"b","l","o","c","k","i","n","g">>, <<"o","u","t","a","g","e">>, <<"d","o","w","n">>, <<"b","r","o","k","e","n">>, <<"f","a","i","l","e","d">>, <<"e","r","r","o","r">>,
    <<"c","a","n","n","o","t">>, <<"u","n","a","b","l","e">>, <<"s","t","o","p","p","e","d">>, <<"c","r","a","s","h","e","d">>, <<"n","o","t"," ","w","o","r","k","i","n","g">> >>

MEDIUM_URGENCY_KEYWORDS == <<
    <<"n","e","x","t"," ","w","e","e","k">>, <<"s","o","o","n">>, <<"t","i","m","e","l","y">>, <<"w","h","e","n"," ","y","o","u"," ","c","a","n">>, <<"t","h","i","s"," ","w","e","e","k">>,
    <<"i","m","p","o","r","t","a","n","t">>, <<"a","t","t","e","n","t","i","o","n">>, <<"p","r","i","o","r","i","t","y">>, <<"i","s","s","u","e">>, <<"p","r","o","b","l","e","m">>,
    <<"c","o","n","c","e","r","n">>, <<"r","e","q","u","e","s","t">>, <<"n","e","e","d","e","d">>, <<"r","e","q","u","i","r","e","d">>, <<"s","h","o","u","l","d">> >>

\* the dict literal: its entries in insertion order, which is the order
\* INTENT_KEYWORDS.items() yields them in
INTENT_KEYWORDS == <<
    [intent |-> <<"f","o","l","l","o","w","-","u","p">>, keywords |-> {
        <<"f","o","l","l","o","w"," ","u","p">>, <<"f","o","l","l","o","w","-","u","p">>, <<"f","o","l","l","o","w","u","p">>, <<"n","o"," ","u","p","d","a","t","e">>, <<"h","a","v","e","n","'","t"," ","b","e","e","n"," ","a","n","y"," ","u","p","d","a","t","e","s">>,
        <<"c","h","e","c","k"," ","s","t","a","t","u","s">>, <<"s","t","a","t","u","s"," ","u","p","d","a","t","e">>, <<"a","n","y"," ","p","r","o","g","r","e","s","s">>, <<"s","t","i","l","l"," ","w","a","i","t","i","n","g">>, <<"e","s","c","a","l","a","t","e">>}],
    [intent |-> <<"i","n","c","i","d","e","n","t">>, keywords |-> {
        <<"e","r","r","o","r">>, <<"i","s","s","u","e">>, <<"p","r","o","b","l","e","m">>, <<"b","r","o","k","e","n">>, <<"n","o","t"," ","w","o","r","k","i","n","g">>, <<"f","a","i","l","e","d">>, <<"c","r","a","s","h">>,
        <<"d","o","w","n">>, <<"o","u","t","a","g","e">>}],
    [intent |-> <<"r","e","q","u","e","s","t">>, keywords |-> {
        <<"n","e","e","d">>, <<"w","a","n","t">>, <<"r","e","q","u","e","s","t">>, <<"w","o","u","l","d"," ","l","i","k","e">>, <<"p","l","e","a","s","e">>, <<"c","o","u","l","d"," ","y","o","u">>, <<"c","a","n"," ","y","o","u">>}],
    [intent |-> <<"q","u","e","s","t","i","o","n">>, keywords |-> {
        <<"?">>, <<"h","o","w">>, <<"w","h","a","t">>, <<"w","h","e","n">>, <<"w","h","e","r","e">>, <<"w","h","y">>, <<"w","h","o">>, <<"w","h","i","c","h">>}],
    [intent |-> <<"c","h","a","n","g","e">>, keywords |-> {
        <<"c","h","a","n","g","e">>, <<"m","o","d","i","f","y">>, <<"u","p","d","a","t","e">>, <<"a","l","t","e","r">>, <<"s","w","i","t","c","h">>, <<"c","o","n","v","e","r","t">>}],
    [intent |-> <<"p","r","o","b","l","e","m">>, keywords |-> {
        <<"r","o","o","t"," ","c","a","u","s","e">>, <<"i","n","v","e","s","t","i","g","a","t","e">>, <<"a","n","a","l","y","z","e">>, <<"t","r","o","u","b","l","e","s","h","o","o","t">>, <<"d","i","a","g","n","o","s","e">>}],
    [intent |-> <<"i","n","f","o","r","m","a","t","i","o","n">>, keywords |-> {
        <<"i","n","f","o","r","m">>, <<"n","o","t","i","f","y">>, <<"u","p","d","a","t","e">>, <<"s","t","a","t","u","s">>, <<"p","r","o","g","r","e","s","s">>, <<"r","e","p","o","r","t">>}] >>

\* INTENT_KEYWORDS[name]
intent_keywords(name) ==
    (CHOOSE e \in Range(INTENT_KEYWORDS) : e.intent = name).keywords

\* The order in which a for loop visits a set of strings: it depends on the
\* process's hash seed.  Seed 0 is the written order; other seeds rotate it,
\* odd seeds also reverse it.
RECURSIVE reversed(_)
reversed(s) == IF s = <<>> THEN <<>> ELSE Append(reversed(Tail(s)), Head(s))
iteration_order(keywords, seed) ==
    LET n == Len(keywords)
        r == seed % n
        rotated == SubSeq(keywords, r + 1, n) \o SubSeq(keywords, 1, r)
    IN  IF seed % 2 = 1 THEN reversed(rotated) ELSE rotated

-----------------------------------------------------------------------------
(* Rule-based classifier *)

\* for keyword in keywords: if keyword in text_lower: return ..., as whether
\* the loop returns
RECURSIVE loop_returns(_, _)
loop_returns(order, text_lower) ==
    IF order = <<>> THEN FALSE
    ELSE IF contains(text_lower, Head(order)) THEN TRUE
    ELSE loop_returns(Tail(order), text_lower)

\* determine_urgency with one loop over the keywords of both sets
determine_urgency_one_loop(text) ==
    LET text_lower == lower(text)
        order == iteration_order(HIGH_URGENCY_KEYWORDS \o MEDIUM_URGENCY_KEYWORDS,
                                 hash_seed)
        hits == {i \in 1..Len(order) : contains(text_lower, order[i])}
    IN  IF hits = {} THEN UrgencyEnum.LOW
        ELSE IF order[CHOOSE i \in hits : \A j \in hits : i <= j]
                    \in Range(HIGH_URGENCY_KEYWORDS)
        THEN UrgencyEnum.HIGH
        ELSE UrgencyEnum.MEDIUM

\* determine_urgency with the two loops in the other order
determine_urgency_medium_first(text) ==
    LET text_lower == lower(text)
    IN  IF loop_returns(iteration_order(MEDIUM_URGENCY_KEYWORDS, hash_seed), text_lower)
        THEN UrgencyEnum.MEDIUM
        ELSE IF loop_returns(iteration_order(HIGH_URGENCY_KEYWORDS, hash_seed), text_lower)
        THEN UrgencyEnum.HIGH
        ELSE UrgencyEnum.LOW

determine_urgency(text) ==
    LET text_lower == lower(text)
    IN  IF loop_returns(iteration_order(HIGH_URGENCY_KEYWORDS, hash_seed), text_lower)
        THEN UrgencyEnum.HIGH
        ELSE IF loop_returns(iteration_order(MEDIUM_URGENCY_KEYWORDS, hash_seed), text_lower)
        THEN UrgencyEnum.MEDIUM
        ELSE UrgencyEnum.LOW

\* any(keyword in text_lower for keyword in keywords)
any_keyword_in(keywords, text_lower) == \E keyword \in keywords : contains(text_lower, keyword)

\* the loop over INTENT_KEYWORDS.items() from entry i on
RECURSIVE intent_loop(_, _)
intent_loop(i, text_lower) ==
    IF i > Len(INTENT_KEYWORDS) THEN IntentEnum.OTHER_
    ELSE IF /\ INTENT_KEYWORDS[i].intent # <<"f","o","l","l","o","w","-","u","p">>
            /\ any_keyword_in(INTENT_KEYWORDS[i].keywords, text_lower)
    THEN capitalize(INTENT_KEYWORDS[i].intent)
    ELSE intent_loop(i + 1, text_lower)

\* determine_intent without the follow-up test of line 281
determine_intent_no_follow_up_first(text) == intent_loop(1, lower(text))

determine_intent(text) ==
    LET text_lower == lower(text)
    IN  IF any_keyword_in(intent_keywords(<<"f","o","l","l","o","w","-","u","p">>), text_lower)
        THEN IntentEnum.FOLLOW_UP
        ELSE intent_loop(1, text_lower)

-----------------------------------------------------------------------------
(* Regular expressions (module re), with re.IGNORECASE.  A match of a       *)
(* pattern at a position is the tuple of its possible ends in the order     *)
(* the backtracking matcher tries them, so the first one is the match the   *)
(* code gets.  g is <<>> or the 1-tuple of the text the group captured.     *)

Letters == Range(UpperCase) \cup Range(LowerCase)
Alnum == Letters \cup Digits

lit(s) == [op |-> "lit", s |-> s]                 \* the text s
star(cls) == [op |-> "star", cls |-> cls]         \* [cls]*
plus(cls) == [op |-> "plus", cls |-> cls]         \* [cls]+
opt(r) == [op |-> "opt", r |-> r]                 \* (?:r)?
alt(rs) == [op |-> "alt", rs |-> rs]              \* (?:r1|r2|...)
seq(rs) == [op |-> "seq", rs |-> rs]              \* r1 r2 ...
group(r) == [op |-> "group", r |-> r]             \* (r)

\* length of the longest run of characters of cls in s from position i
RECURSIVE run_length(_, _, _)
run_length(s, i, cls) ==
    IF i <= Len(s) /\ s[i] \in cls THEN 1 + run_length(s, i + 1, cls) ELSE 0

RECURSIVE concat_all(_)
concat_all(ss) == IF ss = <<>> THEN <<>> ELSE Head(ss) \o concat_all(Tail(ss))

RECURSIVE match(_, _, _)
RECURSIVE match_seq(_, _, _, _)
match(r, s, i) ==
    CASE r.op = "lit" ->
            IF /\ i + Len(r.s) - 1 <= Len(s)
               /\ lower(SubSeq(s, i, i + Len(r.s) - 1)) = lower(r.s)
            THEN <<[end |-> i + Len(r.s), g |-> <<>>]>>
            ELSE <<>>
      [] r.op = "star" ->
            LET n == run_length(s, i, r.cls)
            IN  [k \in 1..(n + 1) |-> [end |-> i + n + 1 - k, g |-> <<>>]]
      [] r.op = "plus" ->
            LET n == run_length(s, i, r.cls)
            IN  [k \in 1..n |-> [end |-> i + n + 1 - k, g |-> <<>>]]
      [] r.op = "opt" -> match(r.r, s, i) \o <<[end |-> i, g |-> <<>>]>>
      [] r.op = "alt" -> concat_all([k \in 1..Len(r.rs) |-> match(r.rs[k], s, i)])
      [] r.op = "group" ->
            LET ms == match(r.r, s, i)
            IN  [k \in 1..Len(ms) |-> [end |-> ms[k].end, g |-> <<SubSeq(s, i, ms[k].end - 1)>>]]
      [] r.op = "seq" -> match_seq(r.rs, 1, s, i)
match_seq(rs, k, s, i) ==
    IF k > Len(rs) THEN <<[end |-> i, g |-> <<>>]>>
    ELSE LET firsts == match(rs[k], s, i)
             rest(m) ==
                LET ms == match_seq(rs, k + 1, s, m.end)
                IN  [j \in 1..Len(ms) |->
                        [end |-> ms[j].end, g |-> IF m.g # <<>> THEN m.g ELSE ms[j].g]]
         IN  concat_all([j \in 1..Len(firsts) |-> rest(firsts[j])])

\* pattern.findall(text): <<>> when there is no match, else the 1-tuple of
\* matches[0], the group of the leftmost match
findall_first(pattern, text) ==
    LET starts == {i \in 1..(Len(text) + 1) : match(pattern, text, i) # <<>>}
    IN  IF starts = {} THEN <<>>
        ELSE LET i == CHOOSE i \in starts : \A j \in starts : i <= j
             IN  match(pattern, text, i)[1].g

-----------------------------------------------------------------------------
(* Business services *)

\* the dict of lines 44-80 in its insertion order
SERVICENOW_BUSINESS_SERVICES == <<
    [category |-> <<"I","T"," ","S","e","r","v","i","c","e"," ","M","a","n","a","g","e","m","e","n","t">>, services |-> <<
        <<"I","T","S","M">>, <<"I","T"," ","S","e","r","v","i","c","e"," ","M","a","n","a","g","e","m","e","n","t">>, <<"S","e","r","v","i","c","e"," ","D","e","s","k">>, <<"H","e","l","p"," ","D","e","s","k">>,
        <<"I","n","c","i","d","e","n","t"," ","M","a","n","a","g","e","m","e","n","t">>, <<"P","r","o","b","l","e","m"," ","M","a","n","a","g","e","m","e","n","t">>, <<"C","h","a","n","g","e"," ","M","a","n","a","g","e","m","e","n","t">>,
        <<"S","e","r","v","i","c","e"," ","C","a","t","a","l","o","g">>, <<"S","e","r","v","i","c","e"," ","R","e","q","u","e","s","t">>, <<"K","n","o","w","l","e","d","g","e"," ","M","a","n","a","g","e","m","e","n","t">>>>],
    [category |-> <<"I","T"," ","O","p","e","r","a","t","i","o","n","s"," ","M","a","n","a","g","e","m","e","n","t">>, services |-> <<
        <<"I","T","O","M">>, <<"I","T"," ","O","p","e","r","a","t","i","o","n","s">>, <<"I","n","f","r","a","s","t","r","u","c","t","u","r","e"," ","M","a","n","a","g","e","m","e","n","t">>,
        <<"E","v","e","n","t"," ","M","a","n","a","g","e","m","e","n","t">>, <<"D","i","s","c","o","v","e","r","y">>, <<"S","e","r","v","i","c","e"," ","M","a","p","p","i","n","g">>,
        <<"C","l","o","u","d"," ","M","a","n","a","g","e","m","e","n","t">>, <<"O","p","e","r","a","t","i","o","n","a","l"," ","I","n","t","e","l","l","i","g","e","n","c","e">>>>],
    [category |-> <<"I","T"," ","B","u","s","i","n","e","s","s"," ","M","a","n","a","g","e","m","e","n","t">>, services |-> <<
        <<"I","T","B","M">>, <<"I","T"," ","B","u","s","i","n","e","s","s"," ","M","a","n","a","g","e","m","e","n","t">>, <<"P","r","o","j","e","c","t"," ","P","o","r","t","f","o","l","i","o"," ","M","a","n","a","g","e","m","e","n","t">>,
        <<"A","p","p","l","i","c","a","t","i","o","n"," ","P","o","r","t","f","o","l","i","o"," ","M","a","n","a","g","e","m","e","n","t">>, <<"F","i","n","a","n","c","i","a","l"," ","M","a","n","a","g","e","m","e","n","t">>,
        <<"D","e","m","a","n","d"," ","M","a","n","a","g","e","m","e","n","t">>, <<"R","e","s","o","u","r","c","e"," ","M","a","n","a","g","e","m","e","n","t">>>>],
    [category |-> <<"C","u","s","t","o","m","e","r"," ","S","e","r","v","i","c","e"," ","M","a","n","a","g","e","m","e","n","t">>, services |-> <<
        <<"C","S","M">>, <<"C","u","s","t","o","m","e","r"," ","S","e","r","v","i","c","e">>, <<"C","u","s","t","o","m","e","r"," ","S","u","p","p","o","r","t">>,
        <<"C","a","s","e"," ","M","a","n","a","g","e","m","e","n","t">>, <<"C","u","s","t","o","m","e","r"," ","E","x","p","e","r","i","e","n","c","e">>,
        <<"F","i","e","l","d"," ","S","e","r","v","i","c","e">>, <<"C","u","s","t","o","m","e","r"," ","P","o","r","t","a","l">>>>],
    [category |-> <<"H","u","m","a","n"," ","R","e","s","o","u","r","c","e","s"," ","S","e","r","v","i","c","e"," ","D","e","l","i","v","e","r","y">>, services |-> <<
        <<"H","R","S","D">>, <<"H","R"," ","S","e","r","v","i","c","e"," ","D","e","l","i","v","e","r","y">>, <<"E","m","p","l","o","y","e","e"," ","S","e","r","v","i","c","e"," ","C","e","n","t","e","r">>,
        <<"H","R"," ","C","a","s","e"," ","M","a","n","a","g","e","m","e","n","t">>, <<"E","m","p","l","o","y","e","e"," ","P","o","r","t","a","l">>,
        <<"H","R"," ","K","n","o","w","l","e","d","g","e"," ","M","a","n","a","g","e","m","e","n","t">>, <<"H","R"," ","S","e","r","v","i","c","e"," ","C","a","t","a","l","o","g">>>>],
    [category |-> <<"S","e","c","u","r","i","t","y"," ","O","p","e","r","a","t","i","o","n","s">>, services |-> <<
        <<"S","e","c","O","p","s">>, <<"S","e","c","u","r","i","t","y"," ","O","p","e","r","a","t","i","o","n","s">>, <<"S","e","c","u","r","i","t","y"," ","I","n","c","i","d","e","n","t"," ","R","e","s","p","o","n","s","e">>,
        <<"V","u","l","n","e","r","a","b","i","l","i","t","y"," ","R","e","s","p","o","n","s","e">>, <<"T","h","r","e","a","t"," ","I","n","t","e","l","l","i","g","e","n","c","e">>,
        <<"S","e","c","u","r","i","t","y"," ","O","p","e","r","a","t","i","o","n","s"," ","C","e","n","t","e","r">>, <<"S","O","C">>>>],
    [category |-> <<"G","o","v","e","r","n","a","n","c","e",","," ","R","i","s","k",","," ","a","n","d"," ","C","o","m","p","l","i","a","n","c","e">>, services |-> <<
        <<"G","R","C">>, <<"G","o","v","e","r","n","a","n","c","e">>, <<"R","i","s","k"," ","M","a","n","a","g","e","m","e","n","t">>, <<"C","o","m","p","l","i","a","n","c","e">>,
        <<"P","o","l","i","c","y"," ","M","a","n","a","g","e","m","e","n","t">>, <<"A","u","d","i","t"," ","M","a","n","a","g","e","m","e","n","t">>,
        <<"R","i","s","k"," ","A","s","s","e","s","s","m","e","n","t">>, <<"C","o","m","p","l","i","a","n","c","e"," ","M","a","n","a","g","e","m","e","n","t">>>>] >>

\* the partial matches compared without .lower()
first_category_case_sensitive(name) ==
    LET table == SERVICENOW_BUSINESS_SERVICES
        exact == {i \in DOMAIN table :
                    \E j \in DOMAIN table[i].services : table[i].services[j] = name}
        partial == {i \in DOMAIN table :
                    \E j \in DOMAIN table[i].services :
                        contains(table[i].services[j], name)}
    IN  IF exact # {}
        THEN table[CHOOSE i \in exact : \A j \in exact : i <= j].category
        ELSE IF partial # {}
        THEN table[CHOOSE i \in partial : \A j \in partial : i <= j].category
        ELSE name

\* lines 214-223 for the stripped text: the loop of the exact matches, then
\* the loop of the partial matches, each returning at its first category
first_category(name) ==
    LET table == SERVICENOW_BUSINESS_SERVICES
        exact == {i \in DOMAIN table :
                    \E j \in DOMAIN table[i].services : table[i].services[j] = name}
        partial == {i \in DOMAIN table :
                    \E j \in DOMAIN table[i].services :
                        contains(lower(table[i].services[j]), lower(name))}
    IN  IF exact # {}
        THEN table[CHOOSE i \in exact : \A j \in exact : i <= j].category
        ELSE IF partial # {}
        THEN table[CHOOSE i \in partial : \A j \in partial : i <= j].category
        ELSE name

\* lines 210-225
normalize_business_service(service_name) == first_category(strip(service_name))

-----------------------------------------------------------------------------
(* Pattern library *)

\* The rows of ENTITY_PATTERNS that match some text of this model; the other
\* rows match none of them.
\*   incident_number  (?:incident|ticket|case)\s+(?:number|#|no|id)?\s*(?:is|:)?\s*[#]?([A-Z0-9]+)
\*   error_code       (?:error|code|error code)\s*(?:is|:)?\s*([A-Z0-9_]+)
ENTITY_PATTERNS == <<
    [entity_name |-> <<"i","n","c","i","d","e","n","t","_","n","u","m","b","e","r">>, pattern |-> seq(<<
        alt(<<lit(<<"i","n","c","i","d","e","n","t">>), lit(<<"t","i","c","k","e","t">>), lit(<<"c","a","s","e">>)>>),
        plus(Whitespace),
        opt(alt(<<lit(<<"n","u","m","b","e","r">>), lit(<<"#">>), lit(<<"n","o">>), lit(<<"i","d">>)>>)),
        star(Whitespace),
        opt(alt(<<lit(<<"i","s">>), lit(<<":">>)>>)),
        star(Whitespace),
        opt(lit(<<"#">>)),
        group(plus(Alnum)) >>)],
    [entity_name |-> <<"e","r","r","o","r","_","c","o","d","e">>, pattern |-> seq(<<
        alt(<<lit(<<"e","r","r","o","r">>), lit(<<"c","o","d","e">>), lit(<<"e","r","r","o","r"," ","c","o","d","e">>)>>),
        star(Whitespace),
        opt(alt(<<lit(<<"i","s">>), lit(<<":">>)>>)),
        star(Whitespace),
        group(plus(Alnum \cup {"_"})) >>)] >>

\* re.sub(r'^[^a-zA-Z0-9]+|[^a-zA-Z0-9]+$|\n.*$', '', m): the first two
\* alternatives; a captured group of the rows above holds no newline
RECURSIVE lstrip_non_alnum(_)
lstrip_non_alnum(s) ==
    IF s # <<>> /\ Head(s) \notin Alnum THEN lstrip_non_alnum(Tail(s)) ELSE s
RECURSIVE rstrip_non_alnum(_)
rstrip_non_alnum(s) ==
    IF s # <<>> /\ s[Len(s)] \notin Alnum
    THEN rstrip_non_alnum(SubSeq(s, 1, Len(s) - 1)) ELSE s
clean_match(m) == rstrip_non_alnum(lstrip_non_alnum(m))

\* lines 234-258: what one row of the loop stores for its matches
store(found, entity_name, matches) ==
    IF matches = <<>> THEN found
    ELSE IF entity_name \in {<<"i","n","c","i","d","e","n","t","_","n","u","m","b","e","r">>, <<"c","h","a","n","g","e","_","r","e","q","u","e","s","t">>,
                             <<"p","r","o","b","l","e","m","_","n","u","m","b","e","r">>, <<"u","s","e","r","_","i","d">>}
    THEN update(found, [k \in {entity_name} |-> Str(upper(matches[1]))])
    ELSE IF entity_name = <<"b","u","s","i","n","e","s","s","_","s","e","r","v","i","c","e">>
    THEN IF normalize_business_service(matches[1]) # <<>>
         THEN update(found, [k \in {entity_name} |->
                                Str(normalize_business_service(matches[1]))])
         ELSE found
    ELSE IF clean_match(matches[1]) # <<>>
    THEN update(found, [k \in {entity_name} |-> Str(clean_match(matches[1]))])
    ELSE found

\* the loop of extract_entities over the rows, found being the dict so far
RECURSIVE extract_loop(_, _, _)
extract_loop(rows, text, found) ==
    IF rows = <<>> THEN found
    ELSE extract_loop(Tail(rows), text,
                      store(found, Head(rows).entity_name,
                            findall_first(Head(rows).pattern, text)))

extract_entities(text) == extract_loop(ENTITY_PATTERNS, text, EmptyDict)

-----------------------------------------------------------------------------
(* Completion text and JSON.  The text a model returns is a tuple of        *)
(* characters in which the serialized JSON object the model produced is     *)
(* one element: Object stands for the whole object text, from its opening   *)
(* brace to its closing brace; Truncated for the text of an object without  *)
(* nested objects, cut off before its closing brace; TruncatedNested for    *)
(* the text of an object with a nested object, cut off before its closing   *)
(* brace (it still holds the closing brace of the nested object); and       *)
(* Fragment for the text of TruncatedNested up to that inner closing brace. *)
(* The object itself travels with the text.                                 *)

\* the character U+0060, which a string of this language cannot hold
Backtick == "BACKTICK"

Object == "{...}"
Truncated == "{..."
TruncatedNested == "{..{..}.."
Fragment == "{..{..}"

\* elements that start with an opening brace / hold a closing brace
opens_brace(c) == c \in {"{", Object, Truncated, TruncatedNested, Fragment}
closes_brace(c) == c \in {"}", Object, TruncatedNested, Fragment}

\* re.sub(r"^FENCE(?:json)?\s*", "", content), FENCE being three backticks, on a
\* content that starts with FENCE
strip_opening_fence(content) ==
    LET after_fence == SubSeq(content, 4, Len(content))
        after_tag == IF startswith(after_fence, <<"j","s","o","n">>)
                     THEN SubSeq(after_fence, 5, Len(after_fence))
                     ELSE after_fence
    IN  lstrip(after_tag, Whitespace)

\* re.search(r'\{.*\}', content, re.DOTALL): <<>> when there is no match,
\* else the 1-tuple of group(0), from the first opening brace to the last
\* closing brace after it
search_braces(content) ==
    LET opens == {i \in 1..Len(content) : opens_brace(content[i])}
    IN  IF opens = {} THEN <<>>
        ELSE LET i == CHOOSE i \in opens : \A j \in opens : i <= j
                 closes == {j \in 1..Len(content) :
                              /\ closes_brace(content[j])
                              /\ j > i \/ (j = i /\ content[j] # "}")}
             IN  IF closes = {} THEN <<>>
                 ELSE LET j == CHOOSE j \in closes : \A k \in closes : k <= j
                          last == IF content[j] = TruncatedNested
                                  THEN Fragment ELSE content[j]
                      IN  <<SubSeq(content, i, j - 1) \o <<last>>>>

clean_json_response(content) ==
    LET unfenced == IF startswith(content, <<Backtick,Backtick,Backtick>>) /\ endswith(content, <<Backtick,Backtick,Backtick>>)
                    THEN rstrip(rstrip(strip_opening_fence(content), {Backtick}), Whitespace)
                    ELSE content
        json_match == search_braces(unfenced)
    IN  IF json_match # <<>> THEN strip(json_match[1]) ELSE strip(unfenced)

\* int(digits)
RECURSIVE int_of(_)
int_of(ds) ==
    IF ds = <<>> THEN 0
    ELSE 10 * int_of(SubSeq(ds, 1, Len(ds) - 1))
         + (CHOOSE n \in 0..9 : <<"0","1","2","3","4","5","6","7","8","9">>[n + 1] = ds[Len(ds)])

JSONDecodeError == [ok |-> FALSE, value |-> None]
loaded(value) == [ok |-> TRUE, value |-> value]

\* json.loads(text), object being the object that "{...}" and "{..." in the
\* text serialize: the JSON documents that the characters of this model can
\* spell are an object, an empty list, an integer, null and a plain string
json_loads(text, object) ==
    LET doc == strip(text)
        inner == IF Len(doc) >= 2 THEN SubSeq(doc, 2, Len(doc) - 1) ELSE <<>>
    IN  CASE doc = <<Object>> -> loaded(Dict(object))
          [] /\ Len(doc) >= 2 /\ doc[1] \in {Truncated, TruncatedNested}
             /\ doc[Len(doc)] = "}"
             /\ strip(inner) = <<>> -> loaded(Dict(object))
          [] /\ Len(doc) >= 2 /\ doc[1] = "{" /\ doc[Len(doc)] = "}"
             /\ strip(inner) = <<>> -> loaded(Dict(EmptyDict))
          [] /\ Len(doc) >= 2 /\ doc[1] = "[" /\ doc[Len(doc)] = "]"
             /\ strip(inner) = <<>> -> loaded(List(<<>>))
          [] /\ doc # <<>> /\ Range(doc) \subseteq Digits
             /\ (Len(doc) = 1 \/ doc[1] # "0") -> loaded(Num(int_of(doc)))
          [] doc = <<"n","u","l","l">> -> loaded(None)
          [] /\ Len(doc) >= 2 /\ doc[1] = "\"" /\ doc[Len(doc)] = "\""
             /\ Range(inner) \cap {"\"", "\\", "\n", "\t", Object, Truncated,
                                 TruncatedNested, Fragment} = {}
                -> loaded(Str(inner))
          [] OTHER -> JSONDecodeError

-----------------------------------------------------------------------------
(* analyze_email: the code before the model calls *)

\* a dict argument, as its items in insertion order
OrderedDict(items) == [t |-> "items", v |-> items]
item(k, v) == [k |-> k, v |-> v]
dict_of(items) == [key \in {items[i].k : i \in 1..Len(items)} |->
                     items[CHOOSE i \in 1..Len(items) :
                             /\ items[i].k = key
                             /\ \A j \in (i + 1)..Len(items) : items[j].k # key].v]

\* str(v) and repr(v) of a str or None
to_str(v) == IF v.t = "str" THEN v.v ELSE <<"N","o","n","e">>
repr(v) == IF v.t = "str" THEN <<"'">> \o v.v \o <<"'">> ELSE <<"N","o","n","e">>

\* sep.join(parts)
RECURSIVE join_with(_, _)
join_with(sep, parts) ==
    IF parts = <<>> THEN <<>>
    ELSE IF Len(parts) = 1 THEN parts[1]
    ELSE parts[1] \o sep \o join_with(sep, Tail(parts))

\* "\n".join([f"{k}: {v}" for k, v in additional_details.items()])
additional_text_of(items) ==
    join_with(<<"\n">>, [i \in 1..Len(items) |-> items[i].k \o <<":"," ">> \o to_str(items[i].v)])

\* str(d) of a dict argument, and of None
str_of_details(d) ==
    IF d.t = "items"
    THEN <<"{">> \o join_with(<<","," ">>, [i \in 1..Len(d.v) |->
                        repr(Str(d.v[i].k)) \o <<":"," ">> \o repr(d.v[i].v)]) \o <<"}">>
    ELSE <<"N","o","n","e">>

\* lines 296-302
subject_of(text) ==
    IF startswith(text, <<"S","u","b","j","e","c","t",":">>)
    THEN strip(remove_all(split_once(text, <<"\n","\n">>)[1], <<"S","u","b","j","e","c","t",":">>))
    ELSE <<>>
body_of(text) ==
    IF startswith(text, <<"S","u","b","j","e","c","t",":">>)
    THEN LET parts == split_once(text, <<"\n","\n">>)
         IN  IF Len(parts) > 1 THEN parts[2] ELSE <<>>
    ELSE text

\* lines 305-310
email_entities(text) ==
    update(extract_entities(body_of(text)), extract_entities(subject_of(text)))

\* lines 313-319
with_additional_details(found, details) ==
    IF details.t = "items" /\ details.v # <<>>
    THEN update(update(found, extract_entities(additional_text_of(details.v))),
                dict_of(details.v))
    ELSE found

set(d, k, v) == update(d, [x \in {k} |-> v])

\* lines 324-326
with_email_subject(found, d) ==
    IF <<"e","m","a","i","l","_","s","u","b","j","e","c","t">> \in DOMAIN d
    THEN update(found, extract_entities(d[<<"e","m","a","i","l","_","s","u","b","j","e","c","t">>].v)) ELSE found
\* lines 327-329
with_email_body(found, d) ==
    IF <<"e","m","a","i","l","_","b","o","d","y">> \in DOMAIN d
    THEN update(found, extract_entities(d[<<"e","m","a","i","l","_","b","o","d","y">>].v)) ELSE found
\* lines 332-333
with_sender(found, d) ==
    IF <<"s","e","n","d","e","r">> \in DOMAIN d THEN set(found, <<"s","e","n","d","e","r","_","e","m","a","i","l">>, d[<<"s","e","n","d","e","r">>]) ELSE found
\* lines 334-335
with_recipient(found, d) ==
    IF <<"r","e","c","i","p","i","e","n","t">> \in DOMAIN d
    THEN set(found, <<"r","e","c","i","p","i","e","n","t","_","e","m","a","i","l">>, d[<<"r","e","c","i","p","i","e","n","t">>]) ELSE found

\* lines 322-335
with_request_data(found, data) ==
    with_recipient(with_sender(with_email_body(with_email_subject(found, data.v),
                                               data.v), data.v), data.v)

\* lines 338-341, for an additional_details that is a dict
with_request_details(found, details) ==
    update(update(found, extract_entities(str_of_details(details))), dict_of(details.v))

\* line 341 raises TypeError: entities.update(None)
update_raises(data) ==
    /\ data.t = "dict" /\ DOMAIN data.v # {}
    /\ <<"a","d","d","i","t","i","o","n","a","l","_","d","e","t","a","i","l","s">> \in DOMAIN data.v
    /\ data.v[<<"a","d","d","i","t","i","o","n","a","l","_","d","e","t","a","i","l","s">>].t # "items"

\* line 344
remove_placeholders(found) ==
    [k \in {x \in DOMAIN found : found[x] # Str(<<"N","/","A">>) /\ found[x] # Str(<<>>)} |->
        found[k]]

\* lines 338-341
with_details_of_request(found, d) ==
    IF <<"a","d","d","i","t","i","o","n","a","l","_","d","e","t","a","i","l","s">> \in DOMAIN d
    THEN with_request_details(found, d[<<"a","d","d","i","t","i","o","n","a","l","_","d","e","t","a","i","l","s">>])
    ELSE found

\* lines 322-341
with_request(found, data) ==
    IF data.t = "dict" /\ DOMAIN data.v # {}
    THEN with_details_of_request(with_request_data(found, data), data.v)
    ELSE found

\* lines 305-344
build_entities(text, details, data) ==
    remove_placeholders(
        with_request(with_additional_details(email_entities(text), details), data))

-----------------------------------------------------------------------------
(* analyze_email: the model invocation chain *)

PRIMARY_MODEL == "mistralai/Mistral-7B-Instruct-v0.1"
FALLBACK_MODEL == "togethercomputer/llama-2-7b-chat"

\* one call of client.chat.completions.create: the model id and whether the
\* call returned (ok) or raised
call(model, ok) == [model |-> model, ok |-> ok]

Completion(model, text, object) ==
    [t |-> "completion", v |-> [model |-> model, text |-> text, object |-> object]]

DEFAULT_REPLY ==
    <<"T","h","a","n","k"," ","y","o","u"," ","f","o","r"," ","y","o","u","r"," ","e","m","a","i","l","."," ","I"," ","w","i","l","l"," ","r","e","v","i","e","w"," ","a","n","d"," ","r","e","s","p","o","n","d"," ","t","o"," ","y","o","u","r"," ","m","e","s","s","a","g","e"," ","s","h","o","r","t","l","y",".">>
APOLOGY_REPLY == <<"I"," ","r","e","c","e","i","v","e","d"," ","y","o","u","r"," ","e","m","a","i","l"," ","a","n","d"," ","w","i","l","l"," ","g","e","t"," ","b","a","c","k"," ","t","o"," ","y","o","u"," ","s","h","o","r","t","l","y",".">>

default_summary == IF subject # <<>> THEN subject ELSE <<"E","m","a","i","l"," ","r","e","c","e","i","v","e","d">>

\* the default dict with the rule-based intent in place of "Other"
default_response_intent_rule_based ==
    [k \in {<<"s","e","n","t","i","m","e","n","t">>, <<"u","r","g","e","n","c","y">>, <<"k","e","y","w","o","r","d","s">>, <<"g","e","n","e","r","a","t","e","d","_","r","e","p","l","y">>, <<"e","n","t","i","t","i","e","s">>,
            <<"i","n","t","e","n","t">>, <<"s","u","m","m","a","r","y">>} |->
        CASE k = <<"s","e","n","t","i","m","e","n","t">> -> Str(<<"N","e","u","t","r","a","l">>)
          [] k = <<"u","r","g","e","n","c","y">> -> Str(rule_based_urgency)
          [] k = <<"k","e","y","w","o","r","d","s">> -> List(<<>>)
          [] k = <<"g","e","n","e","r","a","t","e","d","_","r","e","p","l","y">> -> Str(DEFAULT_REPLY)
          [] k = <<"e","n","t","i","t","i","e","s">> -> Dict(entities)
          [] k = <<"i","n","t","e","n","t">> -> Str(rule_based_intent)
          [] k = <<"s","u","m","m","a","r","y">> -> Str(default_summary)]

\* the dict of lines 478-486
default_response ==
    [k \in {<<"s","e","n","t","i","m","e","n","t">>, <<"u","r","g","e","n","c","y">>, <<"k","e","y","w","o","r","d","s">>, <<"g","e","n","e","r","a","t","e","d","_","r","e","p","l","y">>, <<"e","n","t","i","t","i","e","s">>,
            <<"i","n","t","e","n","t">>, <<"s","u","m","m","a","r","y">>} |->
        CASE k = <<"s","e","n","t","i","m","e","n","t">> -> Str(<<"N","e","u","t","r","a","l">>)
          [] k = <<"u","r","g","e","n","c","y">> -> Str(rule_based_urgency)
          [] k = <<"k","e","y","w","o","r","d","s">> -> List(<<>>)
          [] k = <<"g","e","n","e","r","a","t","e","d","_","r","e","p","l","y">> -> Str(DEFAULT_REPLY)
          [] k = <<"e","n","t","i","t","i","e","s">> -> Dict(entities)
          [] k = <<"i","n","t","e","n","t">> -> Str(<<"O","t","h","e","r">>)
          [] k = <<"s","u","m","m","a","r","y">> -> Str(default_summary)]

\* the dict of lines 601-609 with the reply text of line 595
parse_failure_response_apology ==
    [k \in {<<"s","e","n","t","i","m","e","n","t">>, <<"u","r","g","e","n","c","y">>, <<"k","e","y","w","o","r","d","s">>, <<"g","e","n","e","r","a","t","e","d","_","r","e","p","l","y">>, <<"e","n","t","i","t","i","e","s">>,
            <<"i","n","t","e","n","t">>, <<"s","u","m","m","a","r","y">>} |->
        CASE k = <<"s","e","n","t","i","m","e","n","t">> -> Str(<<"N","e","u","t","r","a","l">>)
          [] k = <<"u","r","g","e","n","c","y">> -> Str(rule_based_urgency)
          [] k = <<"k","e","y","w","o","r","d","s">> -> List(<<>>)
          [] k = <<"g","e","n","e","r","a","t","e","d","_","r","e","p","l","y">> -> Str(APOLOGY_REPLY)
          [] k = <<"e","n","t","i","t","i","e","s">> -> Dict(entities)
          [] k = <<"i","n","t","e","n","t">> -> Str(<<"O","t","h","e","r">>)
          [] k = <<"s","u","m","m","a","r","y">> -> Str(default_summary)]

\* the dict of lines 601-609
parse_failure_response ==
    [k \in {<<"s","e","n","t","i","m","e","n","t">>, <<"u","r","g","e","n","c","y">>, <<"k","e","y","w","o","r","d","s">>, <<"g","e","n","e","r","a","t","e","d","_","r","e","p","l","y">>, <<"e","n","t","i","t","i","e","s">>,
            <<"i","n","t","e","n","t">>, <<"s","u","m","m","a","r","y">>} |->
        CASE k = <<"s","e","n","t","i","m","e","n","t">> -> Str(<<"N","e","u","t","r","a","l">>)
          [] k = <<"u","r","g","e","n","c","y">> -> Str(rule_based_urgency)
          [] k = <<"k","e","y","w","o","r","d","s">> -> List(<<>>)
          [] k = <<"g","e","n","e","r","a","t","e","d","_","r","e","p","l","y">> ->
                Str(<<"T","h","a","n","k"," ","y","o","u"," ","f","o","r"," ","y","o","u","r"," ","e","m","a","i","l","."," ","I"," ","w","i","l","l"," ","r","e","v","i","e","w"," ","a","n","d"," ","r","e","s","p","o","n","d"," ","t","o"," ","y","o","u","r"," ","m","e","s","s","a","g","e"," ","s","h","o","r","t","l","y",".">>)
          [] k = <<"e","n","t","i","t","i","e","s">> -> Dict(entities)
          [] k = <<"i","n","t","e","n","t">> -> Str(<<"O","t","h","e","r">>)
          [] k = <<"s","u","m","m","a","r","y">> -> Str(default_summary)]

-----------------------------------------------------------------------------
(* analyze_email: the code after json.loads, on the parsed dict *)

expected_keys == <<<<"s","e","n","t","i","m","e","n","t">>, <<"u","r","g","e","n","c","y">>, <<"k","e","y","w","o","r","d","s">>, <<"g","e","n","e","r","a","t","e","d","_","r","e","p","l","y">>, <<"i","n","t","e","n","t">>,
                   <<"s","u","m","m","a","r","y">>, <<"e","n","t","i","t","i","e","s">>>>

\* lines 499-524
add_missing_keys(res) ==
    LET defaults ==
            [k \in Range(expected_keys) |->
                CASE k = <<"s","e","n","t","i","m","e","n","t">> -> Str(<<"N","e","u","t","r","a","l">>)
                  [] k = <<"u","r","g","e","n","c","y">> -> Str(rule_based_urgency)
                  [] k = <<"k","e","y","w","o","r","d","s">> -> List(<<>>)
                  [] k = <<"g","e","n","e","r","a","t","e","d","_","r","e","p","l","y">> -> Str(APOLOGY_REPLY)
                  [] k = <<"i","n","t","e","n","t">> -> Str(<<"O","t","h","e","r">>)
                  [] k = <<"s","u","m","m","a","r","y">> -> Str(default_summary)
                  [] k = <<"e","n","t","i","t","i","e","s">> -> Dict(entities)]
    IN  IF \A key \in Range(expected_keys) : key \in DOMAIN res
        THEN res
        ELSE update(defaults, res)

\* the merge with the two sources in the other order
merge_entities_model_wins(res) ==
    IF <<"e","n","t","i","t","i","e","s">> \notin DOMAIN res \/ ~is_dict(res[<<"e","n","t","i","t","i","e","s">>])
    THEN set(res, <<"e","n","t","i","t","i","e","s">>, Dict(entities))
    ELSE set(res, <<"e","n","t","i","t","i","e","s">>, Dict(update(entities, res[<<"e","n","t","i","t","i","e","s">>].v)))

\* lines 527-532
merge_entities(res) ==
    IF <<"e","n","t","i","t","i","e","s">> \notin DOMAIN res \/ ~is_dict(res[<<"e","n","t","i","t","i","e","s">>])
    THEN set(res, <<"e","n","t","i","t","i","e","s">>, Dict(entities))
    ELSE set(res, <<"e","n","t","i","t","i","e","s">>, Dict(update(res[<<"e","n","t","i","t","i","e","s">>].v, entities)))

\* lines 535-536
drop_desk(res) ==
    LET bag == res[<<"e","n","t","i","t","i","e","s">>].v
    IN  IF <<"b","u","s","i","n","e","s","s","_","s","e","r","v","i","c","e">> \in DOMAIN bag /\ bag[<<"b","u","s","i","n","e","s","s","_","s","e","r","v","i","c","e">>] = Str(<<"D","e","s","k">>)
        THEN set(res, <<"e","n","t","i","t","i","e","s">>, Dict(without(bag, {<<"b","u","s","i","n","e","s","s","_","s","e","r","v","i","c","e">>})))
        ELSE res

\* the urgency step without the else branch of line 550
normalize_urgency_keeps_unmapped(res) ==
    LET urgency == res[<<"u","r","g","e","n","c","y">>]
    IN  IF truthy(urgency) /\ is_str(urgency)
        THEN LET urgency_lower == lower(urgency.v)
             IN  IF contains(urgency_lower, <<"h","i","g","h">>) THEN set(res, <<"u","r","g","e","n","c","y">>, Str(UrgencyEnum.HIGH))
                 ELSE IF contains(urgency_lower, <<"m","e","d","i","u","m">>) \/ contains(urgency_lower, <<"m","e","d">>)
                 THEN set(res, <<"u","r","g","e","n","c","y">>, Str(UrgencyEnum.MEDIUM))
                 ELSE IF contains(urgency_lower, <<"l","o","w">>) THEN set(res, <<"u","r","g","e","n","c","y">>, Str(UrgencyEnum.LOW))
                 ELSE res
        ELSE set(res, <<"u","r","g","e","n","c","y">>, Str(rule_based_urgency))

\* "low" tested before "medium" and "med"
normalize_urgency_low_first(res) ==
    LET urgency == res[<<"u","r","g","e","n","c","y">>]
    IN  IF truthy(urgency) /\ is_str(urgency)
        THEN LET urgency_lower == lower(urgency.v)
             IN  IF contains(urgency_lower, <<"h","i","g","h">>) THEN set(res, <<"u","r","g","e","n","c","y">>, Str(UrgencyEnum.HIGH))
                 ELSE IF contains(urgency_lower, <<"l","o","w">>) THEN set(res, <<"u","r","g","e","n","c","y">>, Str(UrgencyEnum.LOW))
                 ELSE IF contains(urgency_lower, <<"m","e","d","i","u","m">>) \/ contains(urgency_lower, <<"m","e","d">>)
                 THEN set(res, <<"u","r","g","e","n","c","y">>, Str(UrgencyEnum.MEDIUM))
                 ELSE set(res, <<"u","r","g","e","n","c","y">>, Str(rule_based_urgency))
        ELSE set(res, <<"u","r","g","e","n","c","y">>, Str(rule_based_urgency))

\* lines 539-550
normalize_urgency(res) ==
    LET urgency == res[<<"u","r","g","e","n","c","y">>]
    IN  IF truthy(urgency) /\ is_str(urgency)
        THEN LET urgency_lower == lower(urgency.v)
             IN  IF contains(urgency_lower, <<"h","i","g","h">>) THEN set(res, <<"u","r","g","e","n","c","y">>, Str(UrgencyEnum.HIGH))
                 ELSE IF contains(urgency_lower, <<"m","e","d","i","u","m">>) \/ contains(urgency_lower, <<"m","e","d">>)
                 THEN set(res, <<"u","r","g","e","n","c","y">>, Str(UrgencyEnum.MEDIUM))
                 ELSE IF contains(urgency_lower, <<"l","o","w">>) THEN set(res, <<"u","r","g","e","n","c","y">>, Str(UrgencyEnum.LOW))
                 ELSE set(res, <<"u","r","g","e","n","c","y">>, Str(rule_based_urgency))
        ELSE set(res, <<"u","r","g","e","n","c","y">>, Str(rule_based_urgency))

\* the tests made on the intent as the model wrote it, without .lower()
normalize_intent_case_sensitive(res) ==
    LET intent == res[<<"i","n","t","e","n","t">>]
    IN  IF truthy(intent) /\ is_str(intent)
        THEN LET intent_lower == intent.v
                 canonical ==
                    IF any_keyword_in(intent_keywords(<<"f","o","l","l","o","w","-","u","p">>), intent_lower)
                    THEN IntentEnum.FOLLOW_UP
                    ELSE IF contains(intent_lower, <<"r","e","q","u","e","s","t">>) THEN IntentEnum.REQUEST
                    ELSE IF contains(intent_lower, <<"i","n","f","o","r","m","a","t","i","o","n">>) THEN IntentEnum.INFORMATION
                    ELSE IF contains(intent_lower, <<"q","u","e","s","t","i","o","n">>) THEN IntentEnum.QUESTION
                    ELSE IF contains(intent_lower, <<"t","a","s","k">>) /\ contains(intent_lower, <<"a","s","s","i","g","n","m","e","n","t">>)
                    THEN IntentEnum.TASK_ASSIGNMENT
                    ELSE IF contains(intent_lower, <<"i","n","c","i","d","e","n","t">>) THEN IntentEnum.INCIDENT
                    ELSE IF contains(intent_lower, <<"c","h","a","n","g","e">>) THEN IntentEnum.CHANGE
                    ELSE IF contains(intent_lower, <<"p","r","o","b","l","e","m">>) THEN IntentEnum.PROBLEM
                    ELSE IntentEnum.OTHER_
             IN  set(res, <<"i","n","t","e","n","t">>, Str(canonical))
        ELSE set(res, <<"i","n","t","e","n","t">>, Str(rule_based_intent))

\* lines 553-575
normalize_intent(res) ==
    LET intent == res[<<"i","n","t","e","n","t">>]
    IN  IF truthy(intent) /\ is_str(intent)
        THEN LET intent_lower == lower(intent.v)
                 canonical ==
                    IF any_keyword_in(intent_keywords(<<"f","o","l","l","o","w","-","u","p">>), intent_lower)
                    THEN IntentEnum.FOLLOW_UP
                    ELSE IF contains(intent_lower, <<"r","e","q","u","e","s","t">>) THEN IntentEnum.REQUEST
                    ELSE IF contains(intent_lower, <<"i","n","f","o","r","m","a","t","i","o","n">>) THEN IntentEnum.INFORMATION
                    ELSE IF contains(intent_lower, <<"q","u","e","s","t","i","o","n">>) THEN IntentEnum.QUESTION
                    ELSE IF contains(intent_lower, <<"t","a","s","k">>) /\ contains(intent_lower, <<"a","s","s","i","g","n","m","e","n","t">>)
                    THEN IntentEnum.TASK_ASSIGNMENT
                    ELSE IF contains(intent_lower, <<"i","n","c","i","d","e","n","t">>) THEN IntentEnum.INCIDENT
                    ELSE IF contains(intent_lower, <<"c","h","a","n","g","e">>) THEN IntentEnum.CHANGE
                    ELSE IF contains(intent_lower, <<"p","r","o","b","l","e","m">>) THEN IntentEnum.PROBLEM
                    ELSE IntentEnum.OTHER_
             IN  set(res, <<"i","n","t","e","n","t">>, Str(canonical))
        ELSE set(res, <<"i","n","t","e","n","t">>, Str(rule_based_intent))

\* lines 578-587
normalize_sentiment(res) ==
    LET sentiment == res[<<"s","e","n","t","i","m","e","n","t">>]
    IN  IF truthy(sentiment) /\ is_str(sentiment)
        THEN LET sentiment_lower == lower(sentiment.v)
             IN  IF contains(sentiment_lower, <<"p","o","s","i","t","i","v","e">>)
                 THEN set(res, <<"s","e","n","t","i","m","e","n","t">>, Str(SentimentEnum.POSITIVE))
                 ELSE IF contains(sentiment_lower, <<"n","e","g","a","t","i","v","e">>)
                 THEN set(res, <<"s","e","n","t","i","m","e","n","t">>, Str(SentimentEnum.NEGATIVE))
                 ELSE set(res, <<"s","e","n","t","i","m","e","n","t">>, Str(SentimentEnum.NEUTRAL))
        ELSE set(res, <<"s","e","n","t","i","m","e","n","t">>, Str(SentimentEnum.NEUTRAL))

\* lines 590-591
ensure_keywords_list(res) ==
    IF ~is_list(res[<<"k","e","y","w","o","r","d","s">>]) THEN set(res, <<"k","e","y","w","o","r","d","s">>, List(<<>>)) ELSE res

\* lines 594-595
ensure_reply(res) ==
    IF ~truthy(res[<<"g","e","n","e","r","a","t","e","d","_","r","e","p","l","y">>]) \/ ~is_str(res[<<"g","e","n","e","r","a","t","e","d","_","r","e","p","l","y">>])
    THEN set(res, <<"g","e","n","e","r","a","t","e","d","_","r","e","p","l","y">>, Str(APOLOGY_REPLY))
    ELSE res

\* lines 497-597: the record returned for the parsed dict res
normalize(res) ==
    ensure_reply(ensure_keywords_list(normalize_sentiment(normalize_intent(
        normalize_urgency(drop_desk(merge_entities(add_missing_keys(res))))))))

-----------------------------------------------------------------------------
(* Inputs of analyze_email *)

EmailTexts == {
    <<"E","r","r","o","r"," ","c","o","d","e"," ","i","s"," ","4","0","1">>,
    <<"S","u","b","j","e","c","t",":"," ","T","i","c","k","e","t"," ","I","N","C","4","2","\n","\n","A","n","y"," ","p","r","o","g","r","e","s","s","?"," ","I","t"," ","i","s"," ","u","r","g","e","n","t">>,
    <<"S","u","b","j","e","c","t",":"," ","A","c","c","e","s","s","\n","\n","P","l","e","a","s","e"," ","u","p","d","a","t","e"," ","m","y"," ","a","c","c","o","u","n","t">>,
    <<"S","u","b","j","e","c","t",":"," ","P","r","i","n","t","e","r"," ","i","s","s","u","e">>,
    <<"h","e","l","l","o">> }

AdditionalDetails == {
    None,
    OrderedDict(<<>>),
    OrderedDict(<<item(<<"e","r","r","o","r","_","c","o","d","e">>, Str(<<"N","/","A">>))>>),
    OrderedDict(<<item(<<"b","u","s","i","n","e","s","s","_","s","e","r","v","i","c","e">>, Str(<<"D","e","s","k">>)), item(<<"s","t","o","r","e","_","i","d">>, Str(<<"1","1","2">>))>>) }

\* the dict extract_entities_endpoint builds (src/main.py lines 89-95), for a
\* request with and without additional_details
endpoint_request_data(details) ==
    [k \in {<<"e","m","a","i","l","_","s","u","b","j","e","c","t">>, <<"e","m","a","i","l","_","b","o","d","y">>, <<"s","e","n","d","e","r">>, <<"r","e","c","i","p","i","e","n","t">>,
            <<"a","d","d","i","t","i","o","n","a","l","_","d","e","t","a","i","l","s">>} |->
        CASE k = <<"e","m","a","i","l","_","s","u","b","j","e","c","t">> -> Str(<<"T","i","c","k","e","t"," ","I","N","C","4","2">>)
          [] k = <<"e","m","a","i","l","_","b","o","d","y">> -> Str(<<"A","n","y"," ","p","r","o","g","r","e","s","s","?"," ","I","t"," ","i","s"," ","u","r","g","e","n","t">>)
          [] k = <<"s","e","n","d","e","r">> -> Str(<<"a","m","y","@","c","o","r","p",".","i","o">>)
          [] k = <<"r","e","c","i","p","i","e","n","t">> -> None
          [] k = <<"a","d","d","i","t","i","o","n","a","l","_","d","e","t","a","i","l","s">> -> details]

RequestData == {
    None,
    Dict([k \in {<<"s","e","n","d","e","r">>} |-> Str(<<"a","m","y","@","c","o","r","p",".","i","o">>)]),
    Dict(endpoint_request_data(OrderedDict(<<item(<<"e","r","r","o","r","_","c","o","d","e">>, Str(<<"E","7">>)),
                                             item(<<"n","o","t","e">>, Str(<<>>))>>))),
    Dict(endpoint_request_data(None)) }

\* the texts a model returns
Prefixes == { <<>>, <<Backtick,Backtick,Backtick,"j","s","o","n","\n">>, <<Backtick,Backtick,Backtick,"\n">>, <<"H","e","r","e"," ","i","s"," ","t","h","e"," ","a","n","a","l","y","s","i","s","\n">> }
Cores == { <<Object>>, <<Truncated>>, <<TruncatedNested>>, <<Truncated, "\n", "}">>,
           <<TruncatedNested, "\n", "}">>, <<Object, " ", Object>>,
           <<"{","}">>, <<"[","]">>, <<"4","2">>, <<"n","u","l","l">>, <<>>, <<"I"," ","c","a","n","n","o","t"," ","h","e","l","p"," ","w","i","t","h"," ","t","h","a","t">> }
Suffixes == { <<>>, <<"\n",Backtick,Backtick,Backtick>>, <<" ","H","o","p","e"," ","t","h","i","s"," ","h","e","l","p","s">> }

CompletionTexts ==
    {prefix \o core \o suffix : prefix \in Prefixes, core \in Cores, suffix \in Suffixes}

\* the JSON objects a model returns: a well-formed answer, and the answers
\* that differ from it in one field (the field missing, or of another value)
BaseObject ==
    [k \in Range(expected_keys) |->
        CASE k = <<"s","e","n","t","i","m","e","n","t">> -> Str(<<"P","o","s","i","t","i","v","e">>)
          [] k = <<"u","r","g","e","n","c","y">> -> Str(<<"H","i","g","h">>)
          [] k = <<"k","e","y","w","o","r","d","s">> -> List(<<Str(<<"v","p","n">>), Str(<<"l","o","g","i","n">>)>>)
          [] k = <<"g","e","n","e","r","a","t","e","d","_","r","e","p","l","y">> -> Str(<<"W","e"," ","a","r","e"," ","l","o","o","k","i","n","g"," ","i","n","t","o"," ","i","t",".">>)
          [] k = <<"i","n","t","e","n","t">> -> Str(<<"I","n","c","i","d","e","n","t">>)
          [] k = <<"s","u","m","m","a","r","y">> -> Str(<<"V","P","N"," ","l","o","g","i","n"," ","f","a","i","l","s">>)
          [] k = <<"e","n","t","i","t","i","e","s">> -> Dict([e \in {<<"e","r","r","o","r","_","c","o","d","e">>} |-> Str(<<"5","0","0">>)])]

OtherValues(k) ==
    CASE k = <<"s","e","n","t","i","m","e","n","t">> -> {Str(<<"N","E","G","A","T","I","V","E">>), Str(<<"m","i","x","e","d">>), Str(<<>>), None, Num(1)}
      [] k = <<"u","r","g","e","n","c","y">> -> {Str(<<"M","e","d","i","u","m"," ","p","r","i","o","r","i","t","y">>), Str(<<"m","e","d">>), Str(<<"l","o","w">>), Str(<<"A","S","A","P">>),
                            Str(<<"H","I","G","H">>), Str(<<"M","e","d","i","u","m"," ","t","o"," ","h","i","g","h">>), Str(<<"l","o","w","-","m","e","d","i","u","m">>),
                            Str(<<"L","o","w","e","s","t">>), Str(<<>>), None, Num(3)}
      [] k = <<"k","e","y","w","o","r","d","s">> -> {Str(<<"v","p","n",","," ","l","o","g","i","n">>), None,
                             List(<<Str(<<"a">>), Str(<<"b">>), Str(<<"c">>), Str(<<"d">>), Str(<<"e">>),
                                    Str(<<"f">>)>>)}
      [] k = <<"g","e","n","e","r","a","t","e","d","_","r","e","p","l","y">> -> {Str(<<>>), None,
                                    Dict([f \in {<<"s","u","b","j","e","c","t">>, <<"b","o","d","y">>} |->
                                            IF f = <<"b","o","d","y">> THEN Str(<<"W","e"," ","w","i","l","l"," ","f","i","x"," ","i","t",".">>)
                                            ELSE Str(<<"R","e",":"," ","V","P","N">>)])}
      [] k = <<"i","n","t","e","n","t">> -> {Str(IntentEnum[label]) : label \in DOMAIN IntentEnum}
                          \cup {Str(lower(IntentEnum[label])) : label \in DOMAIN IntentEnum}
                          \cup {Str(upper(IntentEnum[label])) : label \in DOMAIN IntentEnum}
                          \cup {Str(<<"T","A","S","K"," ","A","S","S","I","G","N","M","E","N","T">>), Str(<<"f","o","l","l","o","w"," ","u","p"," ","r","e","q","u","e","s","t">>),
                                Str(<<"S","e","r","v","i","c","e"," ","R","e","q","u","e","s","t">>), Str(<<"C","o","m","p","l","a","i","n","t">>), Str(<<>>),
                                None, Num(2)}
      [] k = <<"s","u","m","m","a","r","y">> -> {Str(<<>>), None}
      [] k = <<"e","n","t","i","t","i","e","s">> -> {
            Dict(EmptyDict), List(<<>>), None, Str(<<"n","o","n","e">>),
            Dict([e \in {<<"c","u","s","t","o","m","e","r","_","t","y","p","e">>} |-> Str(<<"N","/","A">>)]),
            Dict([e \in {<<"e","r","r","o","r","_","c","o","d","e">>, <<"c","u","s","t","o","m","e","r","_","t","y","p","e">>} |->
                    IF e = <<"e","r","r","o","r","_","c","o","d","e">> THEN Str(<<>>) ELSE Str(<<"P","a","r","t","n","e","r">>)]),
            Dict([e \in {<<"i","n","c","i","d","e","n","t","_","n","u","m","b","e","r">>, <<"b","u","s","i","n","e","s","s","_","s","e","r","v","i","c","e">>} |->
                    IF e = <<"i","n","c","i","d","e","n","t","_","n","u","m","b","e","r">> THEN Str(<<"I","N","C","7">>) ELSE Str(<<"D","e","s","k">>)]),
            Dict([e \in {<<"b","u","s","i","n","e","s","s","_","s","e","r","v","i","c","e">>} |-> Str(<<"H","e","l","p"," ","D","e","s","k">>)]) }

ModelObjects ==
    {BaseObject, EmptyDict}
    \cup {without(BaseObject, {k}) : k \in Range(expected_keys)}
    \cup UNION {{set(BaseObject, k, v) : v \in OtherValues(k)} : k \in Range(expected_keys)}

\* the object a text serializes: one with a nested object where the text
\* says so, one without where the text says so
FlatObject == without(BaseObject, {<<"e","n","t","i","t","i","e","s">>})
object_for(text) ==
    IF TruncatedNested \in Range(text) THEN BaseObject
    ELSE IF Truncated \in Range(text) THEN FlatObject
    ELSE BaseObject

\* what a successful call returns: a text and the object serialized in it
Completions ==
    {[text |-> text, object |-> object_for(text)] : text \in CompletionTexts}
    \cup {[text |-> text, object |-> object] :
            text \in {<<Object>>, <<Backtick,Backtick,Backtick,"j","s","o","n","\n">> \o <<Object>> \o <<"\n",Backtick,Backtick,Backtick>>},
            object \in ModelObjects}

-----------------------------------------------------------------------------
(* analyze_email as a state machine *)

Init ==
    /\ pc = "start"
    /\ hash_seed \in 0..MaxHashSeed
    /\ email_text \in EmailTexts
    /\ additional_details \in AdditionalDetails
    /\ request_data \in RequestData
    /\ subject = <<>>
    /\ entities = EmptyDict
    /\ rule_based_urgency = <<>>
    /\ rule_based_intent = <<>>
    /\ calls = <<>>
    /\ response = None
    /\ cleaned = None
    /\ parsed = None
    /\ result = None
    /\ request = None
    /\ http_response = None
    /\ earlier = None
    /\ service = None

\* lines 295-341: entities.update(request_data["additional_details"]) raises
PrepareRaises ==
    /\ pc = "start"
    /\ update_raises(request_data)
    /\ pc' = "raised"
    /\ UNCHANGED <<request, http_response, earlier, service>>
    /\ UNCHANGED <<hash_seed, email_text, additional_details, request_data, subject,
                   entities, rule_based_urgency, rule_based_intent, calls, response,
                   cleaned, parsed, result>>

\* lines 295-350
Prepare ==
    /\ pc = "start"
    /\ ~update_raises(request_data)
    /\ subject' = subject_of(email_text)
    /\ entities' = build_entities(email_text, additional_details, request_data)
    /\ rule_based_urgency' = determine_urgency(email_text)
    /\ rule_based_intent' = determine_intent(email_text)
    /\ pc' = "primary"
    /\ UNCHANGED <<request, http_response, earlier, service>>
    /\ UNCHANGED <<hash_seed, email_text, additional_details, request_data, calls,
                   response, cleaned, parsed, result>>

\* What client.chat.completions.create does on the next call: anything on a
\* first run; on a run that repeats an earlier one, what it did then.
replays(ok) ==
    IF earlier = None THEN TRUE
    ELSE Len(earlier.calls) > Len(calls) /\ earlier.calls[Len(calls) + 1].ok = ok
offered ==
    IF earlier = None THEN Completions
    ELSE {[text |-> earlier.response.v.text, object |-> earlier.response.v.object]}

\* the primary model answers and the fallback model is tried all the same
PrimarySucceeds_then_fallback ==
    /\ pc = "primary"
    /\ replays(TRUE)
    /\ calls' = Append(calls, call(PRIMARY_MODEL, TRUE))
    /\ \E c \in offered : response' = Completion(PRIMARY_MODEL, c.text, c.object)
    /\ pc' = "fallback"
    /\ UNCHANGED <<request, http_response, earlier, service>>
    /\ UNCHANGED <<hash_seed, email_text, additional_details, request_data, subject,
                   entities, rule_based_urgency, rule_based_intent, cleaned, parsed,
                   result>>

\* lines 452-460: the primary model answers
PrimarySucceeds ==
    /\ pc = "primary"
    /\ replays(TRUE)
    /\ calls' = Append(calls, call(PRIMARY_MODEL, TRUE))
    /\ \E c \in offered : response' = Completion(PRIMARY_MODEL, c.text, c.object)
    /\ pc' = "parse"
    /\ UNCHANGED <<request, http_response, earlier, service>>
    /\ UNCHANGED <<hash_seed, email_text, additional_details, request_data, subject,
                   entities, rule_based_urgency, rule_based_intent, cleaned, parsed,
                   result>>

\* the primary model's call raises and the primary model is called once more
PrimaryFails_retries ==
    /\ pc = "primary"
    /\ replays(FALSE)
    /\ calls' = Append(calls, call(PRIMARY_MODEL, FALSE))
    /\ pc' = IF calls = <<>> THEN "primary" ELSE "fallback"
    /\ UNCHANGED <<request, http_response, earlier, service>>
    /\ UNCHANGED <<hash_seed, email_text, additional_details, request_data, subject,
                   entities, rule_based_urgency, rule_based_intent, response, cleaned,
                   parsed, result>>

\* lines 452-464: the primary model's call raises
PrimaryFails ==
    /\ pc = "primary"
    /\ replays(FALSE)
    /\ calls' = Append(calls, call(PRIMARY_MODEL, FALSE))
    /\ pc' = "fallback"
    /\ UNCHANGED <<request, http_response, earlier, service>>
    /\ UNCHANGED <<hash_seed, email_text, additional_details, request_data, subject,
                   entities, rule_based_urgency, rule_based_intent, response, cleaned,
                   parsed, result>>

\* lines 465-473: the fallback model answers
FallbackSucceeds ==
    /\ pc = "fallback"
    /\ replays(TRUE)
    /\ calls' = Append(calls, call(FALLBACK_MODEL, TRUE))
    /\ \E c \in offered : response' = Completion(FALLBACK_MODEL, c.text, c.object)
    /\ pc' = "parse"
    /\ UNCHANGED <<request, http_response, earlier, service>>
    /\ UNCHANGED <<hash_seed, email_text, additional_details, request_data, subject,
                   entities, rule_based_urgency, rule_based_intent, cleaned, parsed,
                   result>>

\* lines 465-486: the fallback model's call raises too
FallbackFails ==
    /\ pc = "fallback"
    /\ replays(FALSE)
    /\ calls' = Append(calls, call(FALLBACK_MODEL, FALSE))
    /\ result' = Dict(default_response)
    /\ pc' = "done"
    /\ UNCHANGED <<request, http_response, earlier, service>>
    /\ UNCHANGED <<hash_seed, email_text, additional_details, request_data, subject,
                   entities, rule_based_urgency, rule_based_intent, response, cleaned,
                   parsed>>

\* lines 488-495
content_of(completion) == strip(completion.v.text)
loads_of(completion) ==
    json_loads(clean_json_response(content_of(completion)), completion.v.object)

\* lines 488-495, 598-609: json.loads raises JSONDecodeError
ParseFails ==
    /\ pc = "parse"
    /\ ~loads_of(response).ok
    /\ cleaned' = Str(clean_json_response(content_of(response)))
    /\ parsed' = loads_of(response)
    /\ result' = Dict(parse_failure_response)
    /\ pc' = "done"
    /\ UNCHANGED <<request, http_response, earlier, service>>
    /\ UNCHANGED <<hash_seed, email_text, additional_details, request_data, subject,
                   entities, rule_based_urgency, rule_based_intent, calls, response>>

\* lines 488-502: json.loads returns a value that is no dict, and the key
\* tests or result.keys() raise TypeError or AttributeError, which the except
\* clause of line 598 does not catch
ParseRaises ==
    /\ pc = "parse"
    /\ loads_of(response).ok
    /\ ~is_dict(loads_of(response).value)
    /\ cleaned' = Str(clean_json_response(content_of(response)))
    /\ parsed' = loads_of(response)
    /\ pc' = "raised"
    /\ UNCHANGED <<request, http_response, earlier, service>>
    /\ UNCHANGED <<hash_seed, email_text, additional_details, request_data, subject,
                   entities, rule_based_urgency, rule_based_intent, calls, response,
                   result>>

\* lines 488-597: json.loads returns a dict
Normalize ==
    /\ pc = "parse"
    /\ loads_of(response).ok
    /\ is_dict(loads_of(response).value)
    /\ cleaned' = Str(clean_json_response(content_of(response)))
    /\ parsed' = loads_of(response)
    /\ result' = Dict(normalize(loads_of(response).value.v))
    /\ pc' = "done"
    /\ UNCHANGED <<request, http_response, earlier, service>>
    /\ UNCHANGED <<hash_seed, email_text, additional_details, request_data, subject,
                   entities, rule_based_urgency, rule_based_intent, calls, response>>

Next ==
    \/ PrepareRaises
    \/ Prepare
    \/ PrimarySucceeds
    \/ PrimaryFails
    \/ FallbackSucceeds
    \/ FallbackFails
    \/ ParseFails
    \/ ParseRaises
    \/ Normalize

Spec == Init /\ [][Next]_vars

-----------------------------------------------------------------------------
(* Properties of analyze_email *)

returned == pc = "done"
all_models_failed == Len(calls) = 2 /\ ~calls[1].ok /\ ~calls[2].ok
\* the request went through lines 497-597 with the dict the model returned
normalized == returned /\ parsed # None /\ parsed.ok /\ is_dict(parsed.value)
field(name) == result.v[name]

\* C1: analyze_email never raises, and the record it returns holds all of
\* sentiment, urgency, intent, keywords, entities, summary and
\* generated_reply.
C1_NeverRaises ==
    /\ pc # "raised"
    /\ returned => {<<"s","e","n","t","i","m","e","n","t">>, <<"u","r","g","e","n","c","y">>, <<"i","n","t","e","n","t">>, <<"k","e","y","w","o","r","d","s">>, <<"e","n","t","i","t","i","e","s">>,
                    <<"s","u","m","m","a","r","y">>, <<"g","e","n","e","r","a","t","e","d","_","r","e","p","l","y">>} \subseteq DOMAIN result.v

\* C2: the models are called in their fixed order, the fallback model only
\* after the primary model's call failed, and the completion that is parsed
\* is the one of the first model whose call succeeded.
C2_ChainOrder ==
    /\ Len(calls) <= 2
    /\ Len(calls) >= 1 => calls[1].model = PRIMARY_MODEL
    /\ Len(calls) = 2 => calls[2].model = FALLBACK_MODEL /\ ~calls[1].ok
    /\ parsed # None =>
        /\ calls[Len(calls)].ok
        /\ \A i \in 1..(Len(calls) - 1) : ~calls[i].ok
        /\ response.v.model = calls[Len(calls)].model
        /\ parsed = json_loads(clean_json_response(strip(response.v.text)),
                               response.v.object)

\* the primary model failed, the fallback model answered and its answer was parsed
C2_Witness ==
    /\ returned
    /\ calls = <<call(PRIMARY_MODEL, FALSE), call(FALLBACK_MODEL, TRUE)>>
    /\ response.v.model = FALLBACK_MODEL
    /\ parsed.ok

\* C3: when every model fails, analyze_email returns, without parsing or
\* merging anything, the record with sentiment Neutral, the rule-based
\* urgency of the email text, no keywords, intent Other, the entity bag built
\* before the model calls and the fixed reply text.
C3_ChainFailureDefault ==
    (returned /\ all_models_failed) =>
        /\ response = None /\ cleaned = None /\ parsed = None
        /\ field(<<"s","e","n","t","i","m","e","n","t">>) = Str(<<"N","e","u","t","r","a","l">>)
        /\ field(<<"u","r","g","e","n","c","y">>) = Str(determine_urgency(email_text))
        /\ field(<<"k","e","y","w","o","r","d","s">>) = List(<<>>)
        /\ field(<<"i","n","t","e","n","t">>) = Str(<<"O","t","h","e","r">>)
        /\ field(<<"e","n","t","i","t","i","e","s">>) = Dict(entities)
        /\ field(<<"g","e","n","e","r","a","t","e","d","_","r","e","p","l","y">>) = Str(
            <<"T","h","a","n","k"," ","y","o","u"," ","f","o","r"," ","y","o","u","r"," ","e","m","a","i","l","."," ","I"," ","w","i","l","l"," ","r","e","v","i","e","w"," ","a","n","d"," ","r","e","s","p","o","n","d"," ","t","o"," ","y","o","u","r"," ","m","e","s","s","a","g","e"," ","s","h","o","r","t","l","y",".">>)

\* every model failed for an email whose rule-based intent is not Other and
\* whose entity bag is not empty
C3_Witness ==
    /\ returned /\ all_models_failed
    /\ rule_based_intent = <<"F","o","l","l","o","w","-","u","p">>
    /\ rule_based_urgency = <<"H","i","g","h">>
    /\ <<"i","n","c","i","d","e","n","t","_","n","u","m","b","e","r">> \in DOMAIN entities

\* C4: in every record returned, sentiment, urgency and intent are values of
\* their enums.
C4_EnumsClosed ==
    returned =>
        /\ field(<<"s","e","n","t","i","m","e","n","t">>) \in {Str(<<"P","o","s","i","t","i","v","e">>), Str(<<"N","e","u","t","r","a","l">>), Str(<<"N","e","g","a","t","i","v","e">>)}
        /\ field(<<"u","r","g","e","n","c","y">>) \in {Str(<<"H","i","g","h">>), Str(<<"M","e","d","i","u","m">>), Str(<<"L","o","w">>)}
        /\ field(<<"i","n","t","e","n","t">>) \in {Str(<<"R","e","q","u","e","s","t">>), Str(<<"I","n","f","o","r","m","a","t","i","o","n">>), Str(<<"Q","u","e","s","t","i","o","n">>),
                                 Str(<<"T","a","s","k"," ","A","s","s","i","g","n","m","e","n","t">>), Str(<<"F","o","l","l","o","w","-","u","p">>),
                                 Str(<<"I","n","c","i","d","e","n","t">>), Str(<<"C","h","a","n","g","e">>), Str(<<"P","r","o","b","l","e","m">>),
                                 Str(<<"O","t","h","e","r">>)}

\* the model's urgency is a text that names no level and its answer was normalized
C4_Witness ==
    /\ normalized
    /\ <<"u","r","g","e","n","c","y">> \in DOMAIN parsed.value.v
    /\ parsed.value.v[<<"u","r","g","e","n","c","y">>] = Str(<<"A","S","A","P">>)
    /\ field(<<"u","r","g","e","n","c","y">>) = Str(rule_based_urgency)

\* C5: no entity of a returned record has the value "" or "N/A".
C5_NoPlaceholderEntities ==
    returned =>
        \A k \in DOMAIN field(<<"e","n","t","i","t","i","e","s">>).v :
            field(<<"e","n","t","i","t","i","e","s">>).v[k] \notin {Str(<<>>), Str(<<"N","/","A">>)}

\* the entities of the model's answer, when they are a dict
model_entities ==
    IF <<"e","n","t","i","t","i","e","s">> \in DOMAIN parsed.value.v /\ is_dict(parsed.value.v[<<"e","n","t","i","t","i","e","s">>])
    THEN parsed.value.v[<<"e","n","t","i","t","i","e","s">>].v
    ELSE EmptyDict

\* C6, as claimed: a key of both the model's entities and the bag built
\* before the model calls has the bag's value, and a key of only one of them
\* is kept with that source's value.
C6_MergePrecedence ==
    normalized =>
        LET merged == field(<<"e","n","t","i","t","i","e","s">>).v
        IN  /\ DOMAIN merged = DOMAIN model_entities \cup DOMAIN entities
            /\ \A k \in DOMAIN entities : merged[k] = entities[k]
            /\ \A k \in DOMAIN model_entities \ DOMAIN entities :
                    merged[k] = model_entities[k]

\* C6, amended: the same, except that a business_service entry whose merged
\* value is "Desk" is dropped.
C6_MergePrecedenceExceptDesk ==
    normalized =>
        LET merged == field(<<"e","n","t","i","t","i","e","s">>).v
            value(k) == IF k \in DOMAIN entities THEN entities[k] ELSE model_entities[k]
            dropped == {k \in DOMAIN model_entities \cup DOMAIN entities :
                            k = <<"b","u","s","i","n","e","s","s","_","s","e","r","v","i","c","e">> /\ value(k) = Str(<<"D","e","s","k">>)}
        IN  /\ DOMAIN merged = (DOMAIN model_entities \cup DOMAIN entities) \ dropped
            /\ \A k \in DOMAIN merged : merged[k] = value(k)

\* the model and the bag disagree on error_code and the bag's value is
\* returned, next to a customer_type only the model has
C6_Witness ==
    /\ normalized
    /\ DOMAIN model_entities = {<<"e","r","r","o","r","_","c","o","d","e">>, <<"c","u","s","t","o","m","e","r","_","t","y","p","e">>}
    /\ <<"e","r","r","o","r","_","c","o","d","e">> \in DOMAIN entities /\ <<"c","u","s","t","o","m","e","r","_","t","y","p","e">> \notin DOMAIN entities
    /\ model_entities[<<"e","r","r","o","r","_","c","o","d","e">>] # entities[<<"e","r","r","o","r","_","c","o","d","e">>]
    /\ field(<<"e","n","t","i","t","i","e","s">>).v[<<"e","r","r","o","r","_","c","o","d","e">>] = Str(<<"c","o","d","e">>)
    /\ field(<<"e","n","t","i","t","i","e","s">>).v[<<"c","u","s","t","o","m","e","r","_","t","y","p","e">>] = Str(<<"P","a","r","t","n","e","r">>)

\* C7: a key missing from the parsed model JSON is returned as the rule-based
\* urgency (urgency), the rule-based intent (intent), Neutral (sentiment), an
\* empty list (keywords), the bag built before the model calls (entities),
\* the subject line or the placeholder (summary), the apology text
\* (generated_reply).  The bag is compared as lines 535-536 leave it, without
\* a business_service of "Desk".
C7_FieldRepair ==
    normalized =>
        LET missing(k) == k \notin DOMAIN parsed.value.v
            desk == {k \in DOMAIN entities :
                        k = <<"b","u","s","i","n","e","s","s","_","s","e","r","v","i","c","e">> /\ entities[k] = Str(<<"D","e","s","k">>)}
        IN  /\ missing(<<"u","r","g","e","n","c","y">>) => field(<<"u","r","g","e","n","c","y">>) = Str(rule_based_urgency)
            /\ missing(<<"i","n","t","e","n","t">>) => field(<<"i","n","t","e","n","t">>) = Str(rule_based_intent)
            /\ missing(<<"s","e","n","t","i","m","e","n","t">>) => field(<<"s","e","n","t","i","m","e","n","t">>) = Str(<<"N","e","u","t","r","a","l">>)
            /\ missing(<<"k","e","y","w","o","r","d","s">>) => field(<<"k","e","y","w","o","r","d","s">>) = List(<<>>)
            /\ missing(<<"e","n","t","i","t","i","e","s">>) => field(<<"e","n","t","i","t","i","e","s">>) = Dict(without(entities, desk))
            /\ missing(<<"s","u","m","m","a","r","y">>) =>
                    field(<<"s","u","m","m","a","r","y">>) = Str(IF subject # <<>> THEN subject
                                            ELSE <<"E","m","a","i","l"," ","r","e","c","e","i","v","e","d">>)
            /\ missing(<<"g","e","n","e","r","a","t","e","d","_","r","e","p","l","y">>) =>
                    field(<<"g","e","n","e","r","a","t","e","d","_","r","e","p","l","y">>) =
                        Str(<<"I"," ","r","e","c","e","i","v","e","d"," ","y","o","u","r"," ","e","m","a","i","l"," ","a","n","d"," ","w","i","l","l"," ","g","e","t"," ","b","a","c","k"," ","t","o"," ","y","o","u"," ","s","h","o","r","t","l","y",".">>)

\* C16: no model is called twice within one request: the model ids of the
\* calls made are pairwise different, there are at most as many calls as
\* models (two), and when the last call made has failed the chain is either
\* about to call the next model or has returned the default record.
C16_NoRetry ==
    /\ \A i, j \in 1..Len(calls) : i # j => calls[i].model # calls[j].model
    /\ Len(calls) <= Cardinality({PRIMARY_MODEL, FALLBACK_MODEL})
    /\ (calls # <<>> /\ ~calls[Len(calls)].ok) =>
            \/ Len(calls) = 1 /\ pc = "fallback" /\ calls[1].model = PRIMARY_MODEL
            \/ /\ Len(calls) = 2 /\ pc = "done"
               /\ calls[2].model = FALLBACK_MODEL
               /\ response = None /\ parsed = None
               /\ result = Dict(default_response)

\* both models were called, each once, both calls failed, and the default
\* record was returned
C16_Witness ==
    /\ pc = "done"
    /\ calls = <<call(PRIMARY_MODEL, FALSE), call(FALLBACK_MODEL, FALSE)>>
    /\ result = Dict(default_response)

\* C17: when the sanitized completion is not JSON, analyze_email returns the
\* record it returns when every model fails, field for field: Neutral, the
\* rule-based urgency, no keywords, the same reply text, the entity bag built
\* from the email, intent Other and the same summary.
C17_ParseFailureDefault ==
    (returned /\ parsed # None /\ ~parsed.ok) =>
        /\ result = Dict(default_response)
        /\ field(<<"s","e","n","t","i","m","e","n","t">>) = Str(<<"N","e","u","t","r","a","l">>)
        /\ field(<<"u","r","g","e","n","c","y">>) = Str(rule_based_urgency)
        /\ field(<<"k","e","y","w","o","r","d","s">>) = List(<<>>)
        /\ field(<<"i","n","t","e","n","t">>) = Str(<<"O","t","h","e","r">>)
        /\ field(<<"e","n","t","i","t","i","e","s">>) = Dict(entities)

\* the completion was a fenced object cut off before its closing brace
C17_Witness ==
    /\ returned /\ parsed # None /\ ~parsed.ok
    /\ response.v.text = <<Backtick,Backtick,Backtick,"j","s","o","n","\n">> \o <<Truncated>> \o <<"\n",Backtick,Backtick,Backtick>>
    /\ result = Dict(default_response)

\* the urgency of the model's answer, None when it has none
model_urgency ==
    IF <<"u","r","g","e","n","c","y">> \in DOMAIN parsed.value.v THEN parsed.value.v[<<"u","r","g","e","n","c","y">>] ELSE None

\* C18: the urgency returned for a model urgency text is High if the text
\* contains "high" in any letter case, otherwise Medium if it contains
\* "medium" or "med", otherwise Low if it contains "low", otherwise the
\* rule-based urgency; an absent, empty or non-text urgency gives the
\* rule-based urgency.
C18_UrgencyCanonical ==
    normalized =>
        field(<<"u","r","g","e","n","c","y">>) =
            IF is_str(model_urgency) /\ model_urgency.v # <<>>
            THEN IF contains(lower(model_urgency.v), <<"h","i","g","h">>) THEN Str(<<"H","i","g","h">>)
                 ELSE IF \/ contains(lower(model_urgency.v), <<"m","e","d","i","u","m">>)
                         \/ contains(lower(model_urgency.v), <<"m","e","d">>) THEN Str(<<"M","e","d","i","u","m">>)
                 ELSE IF contains(lower(model_urgency.v), <<"l","o","w">>) THEN Str(<<"L","o","w">>)
                 ELSE Str(rule_based_urgency)
            ELSE Str(rule_based_urgency)

\* a model urgency naming two levels was mapped to the one tested first,
\* which is not the rule-based urgency of the email
C18_Witness ==
    /\ normalized
    /\ model_urgency = Str(<<"l","o","w","-","m","e","d","i","u","m">>)
    /\ field(<<"u","r","g","e","n","c","y">>) = Str(<<"M","e","d","i","u","m">>)
    /\ rule_based_urgency # <<"M","e","d","i","u","m">>

\* the intent of the model's answer, None when it has none
model_intent ==
    IF <<"i","n","t","e","n","t">> \in DOMAIN parsed.value.v THEN parsed.value.v[<<"i","n","t","e","n","t">>] ELSE None

\* C19: a model intent that is one of the nine IntentEnum labels, in any
\* letter case, is returned as that label.
C19_IntentIdentityOnLabels ==
    normalized =>
        \A label \in DOMAIN IntentEnum :
            (is_str(model_intent) /\ lower(model_intent.v) = lower(IntentEnum[label])) =>
                field(<<"i","n","t","e","n","t">>) = Str(IntentEnum[label])

\* the model wrote a label in capitals that is not the rule-based intent of
\* the email, and the label was returned
C19_Witness ==
    /\ normalized
    /\ model_intent = Str(<<"T","A","S","K"," ","A","S","S","I","G","N","M","E","N","T">>)
    /\ field(<<"i","n","t","e","n","t">>) = Str(<<"T","a","s","k"," ","A","s","s","i","g","n","m","e","n","t">>)
    /\ rule_based_intent # <<"T","a","s","k"," ","A","s","s","i","g","n","m","e","n","t">>

\* C11: the keywords of every record returned are a list of at most 5
\* entries, and when the model returned a list they are a prefix of it.
C11_KeywordsBounded ==
    returned =>
        /\ is_list(field(<<"k","e","y","w","o","r","d","s">>))
        /\ Len(field(<<"k","e","y","w","o","r","d","s">>).v) <= 5
        /\ (normalized /\ <<"k","e","y","w","o","r","d","s">> \in DOMAIN parsed.value.v
                       /\ is_list(parsed.value.v[<<"k","e","y","w","o","r","d","s">>])) =>
                LET given == parsed.value.v[<<"k","e","y","w","o","r","d","s">>].v
                    kept == field(<<"k","e","y","w","o","r","d","s">>).v
                IN  Len(kept) <= Len(given) /\ kept = SubSeq(given, 1, Len(kept))

-----------------------------------------------------------------------------
(* The endpoints of src/main.py: a request is received, the handler runs   *)
(* (generate_reply_endpoint through analyze_email) and a response is sent. *)

HTTP_200_OK == 200
HTTP_500_INTERNAL_SERVER_ERROR == 500

\* str(e) of the exception a handler caught
Message == "str(e)"

\* the response of a handler that returned a response model
Response(fields) == [status |-> HTTP_200_OK, body |-> fields]
\* the response to a handler that raised HTTPException
HTTPException(status_code, detail) ==
    [status |-> status_code, body |-> [k \in {<<"d","e","t","a","i","l">>} |-> Str(detail)]]

\* json.dumps(d, indent=2) of a non-empty dict of strings
dumps_indent(items) ==
    <<"{","\n">>
    \o join_with(<<",","\n">>, [i \in 1..Len(items) |->
            <<" "," ","\"">> \o items[i].k \o <<"\"",":"," ","\"">> \o items[i].v.v \o <<"\"">>])
    \o <<"\n","}">>

\* src/main.py lines 135-139
full_content(req) ==
    <<"E","m","a","i","l"," ","C","o","n","t","e","n","t",":","\n">> \o req.email_content \o <<"\n","\n","A","d","d","i","t","i","o","n","a","l"," ","D","e","t","a","i","l","s",":","\n">>
    \o (IF req.details_provided.t = "items" /\ req.details_provided.v # <<>>
        THEN dumps_indent(req.details_provided.v)
        ELSE <<"N","o"," ","a","d","d","i","t","i","o","n","a","l"," ","d","e","t","a","i","l","s"," ","p","r","o","v","i","d","e","d">>)

\* src/main.py lines 145-149, analysis being what analyze_email returned
response_content_of(analysis) ==
    LET content == IF <<"g","e","n","e","r","a","t","e","d","_","r","e","p","l","y">> \in DOMAIN analysis
                   THEN analysis[<<"g","e","n","e","r","a","t","e","d","_","r","e","p","l","y">>]
                   ELSE Str(<<"C","o","u","l","d"," ","n","o","t"," ","g","e","n","e","r","a","t","e"," ","a"," ","r","e","p","l","y",".">>)
    IN  IF ~is_dict(content) THEN content
        ELSE IF <<"b","o","d","y">> \in DOMAIN content.v THEN content.v[<<"b","o","d","y">>]
        ELSE Str(<<Message>>)

\* src/main.py lines 151-158: ReplyGenerationResponse validates that
\* generated_reply is a str
reply_response(content) ==
    IF is_str(content)
    THEN Response([k \in {<<"g","e","n","e","r","a","t","e","d","_","r","e","p","l","y">>} |-> content])
    ELSE HTTPException(HTTP_500_INTERNAL_SERVER_ERROR,
                       <<"E","r","r","o","r"," ","g","e","n","e","r","a","t","i","n","g"," ","r","e","p","l","y",":"," ">> \o <<Message>>)

\* src/main.py line 86
email_text_of(req) ==
    <<"E","m","a","i","l"," ","S","u","b","j","e","c","t",":"," ">> \o req.email_subject \o <<"\n","\n"," ","E","m","a","i","l"," ","B","o","d","y",":"," ">> \o req.email_body

\* src/main.py lines 89-95
request_data_of(req) ==
    Dict([k \in {<<"e","m","a","i","l","_","s","u","b","j","e","c","t">>, <<"e","m","a","i","l","_","b","o","d","y">>, <<"s","e","n","d","e","r">>, <<"r","e","c","i","p","i","e","n","t">>,
                 <<"a","d","d","i","t","i","o","n","a","l","_","d","e","t","a","i","l","s">>} |->
            CASE k = <<"e","m","a","i","l","_","s","u","b","j","e","c","t">> -> Str(req.email_subject)
              [] k = <<"e","m","a","i","l","_","b","o","d","y">> -> Str(req.email_body)
              [] k = <<"s","e","n","d","e","r">> -> Str(req.sender)
              [] k = <<"r","e","c","i","p","i","e","n","t">> -> req.recipient
              [] k = <<"a","d","d","i","t","i","o","n","a","l","_","d","e","t","a","i","l","s">> -> req.additional_details])

\* the parameters of extract_entities (src/email_agent.py line 227)
extract_entities_parameters == <<"text">>

\* a call with n positional arguments and the given keyword arguments raises
\* TypeError when a keyword names no parameter, or one already given
\* positionally, or when a parameter is left without an argument
call_raises(parameters, n, keywords) ==
    \/ n > Len(parameters)
    \/ \E k \in keywords : \A i \in (n + 1)..Len(parameters) : parameters[i] # k
    \/ \E i \in (n + 1)..Len(parameters) : parameters[i] \notin keywords

\* dict.get(key, default)
get(d, key, default) == IF key \in DOMAIN d THEN d[key] ELSE default

\* keywords[:10] of a list or a str
first_ten(l) == [l EXCEPT !.v = SubSeq(l.v, 1, IF Len(l.v) < 10 THEN Len(l.v) ELSE 10)]

\* src/main.py lines 101-113, analysis being what extract_entities returned:
\* EntityExtractionResponse validates the types of its fields
entity_extraction_response(analysis) ==
    LET fields ==
            [k \in {<<"c","a","t","e","g","o","r","y">>, <<"i","n","t","e","n","t">>, <<"s","e","n","t","i","m","e","n","t">>, <<"u","r","g","e","n","c","y">>, <<"k","e","y","w","o","r","d","s">>,
                    <<"e","n","t","i","t","i","e","s">>} |->
                CASE k = <<"c","a","t","e","g","o","r","y">> -> get(analysis, k, Str(<<"C","u","s","t","o","m","e","r">>))
                  [] k = <<"i","n","t","e","n","t">> -> get(analysis, k, Str(<<"o","t","h","e","r">>))
                  [] k = <<"s","e","n","t","i","m","e","n","t">> -> get(analysis, k, Str(<<"n","e","u","t","r","a","l">>))
                  [] k = <<"u","r","g","e","n","c","y">> -> get(analysis, k, Str(<<"m","e","d","i","u","m">>))
                  [] k = <<"k","e","y","w","o","r","d","s">> -> first_ten(get(analysis, k, List(<<>>)))
                  [] k = <<"e","n","t","i","t","i","e","s">> -> get(analysis, k, Dict(EmptyDict))]
    IN  IF /\ \A k \in {<<"c","a","t","e","g","o","r","y">>, <<"i","n","t","e","n","t">>, <<"s","e","n","t","i","m","e","n","t">>, <<"u","r","g","e","n","c","y">>} :
                    is_str(fields[k])
           /\ is_dict(fields[<<"e","n","t","i","t","i","e","s">>])
        THEN Response(fields)
        ELSE HTTPException(HTTP_500_INTERNAL_SERVER_ERROR,
                           <<"E","r","r","o","r"," ","p","r","o","c","e","s","s","i","n","g"," ","t","h","e"," ","r","e","q","u","e","s","t",":"," ">> \o <<Message>>)

\* the requests: EmailContentRequest for /generate_reply and EmailRequest for
\* /extract_entities, all of them valid
GenerateReplyRequests ==
    {[endpoint |-> "generate_reply", email_content |-> content, details_provided |-> details] :
        content \in {<<"h","e","l","l","o">>, <<"T","i","c","k","e","t"," ","I","N","C","4","2",":"," ","a","n","y"," ","p","r","o","g","r","e","s","s","?"," ","I","t"," ","i","s"," ","u","r","g","e","n","t">>},
        details \in {None, OrderedDict(<<item(<<"e","r","r","o","r","_","c","o","d","e">>, Str(<<"E","7">>))>>)}}
ExtractEntitiesRequests ==
    {[endpoint |-> "extract_entities", email_subject |-> <<"P","r","i","n","t","e","r"," ","i","s","s","u","e">>,
      email_body |-> body, sender |-> <<"a","m","y","@","c","o","r","p",".","i","o">>, recipient |-> recipient,
      additional_details |-> details] :
        body \in {<<"I","t"," ","i","s"," ","b","r","o","k","e","n">>, <<"T","i","c","k","e","t"," ","I","N","C","4","2"," ","i","s"," ","u","r","g","e","n","t">>},
        recipient \in {None, Str(<<"i","t","@","c","o","r","p",".","i","o">>)},
        details \in {None, OrderedDict(<<item(<<"s","t","o","r","e","_","i","d">>, Str(<<"1","1","2">>))>>)}}

EndpointsInit ==
    /\ pc = "request"
    /\ hash_seed \in 0..MaxHashSeed
    /\ request \in GenerateReplyRequests \cup ExtractEntitiesRequests
    /\ email_text = <<>>
    /\ additional_details = None
    /\ request_data = None
    /\ subject = <<>>
    /\ entities = EmptyDict
    /\ rule_based_urgency = <<>>
    /\ rule_based_intent = <<>>
    /\ calls = <<>>
    /\ response = None
    /\ cleaned = None
    /\ parsed = None
    /\ result = None
    /\ http_response = None
    /\ earlier = None
    /\ service = None

\* src/main.py lines 130-142: analyze_email(full_content) is called
GenerateReplyCalls ==
    /\ pc = "request"
    /\ request.endpoint = "generate_reply"
    /\ email_text' = full_content(request)
    /\ pc' = "start"
    /\ UNCHANGED <<hash_seed, additional_details, request_data, subject, entities,
                   rule_based_urgency, rule_based_intent, calls, response, cleaned,
                   parsed, result, request, http_response, earlier, service>>

\* src/main.py lines 145-158: analyze_email returned
GenerateReplyReturns ==
    /\ pc = "done"
    /\ request.endpoint = "generate_reply"
    /\ http_response' = reply_response(response_content_of(result.v))
    /\ pc' = "responded"
    /\ UNCHANGED <<hash_seed, email_text, additional_details, request_data, subject,
                   entities, rule_based_urgency, rule_based_intent, calls, response,
                   cleaned, parsed, result, request, earlier, service>>

\* src/main.py lines 159-161: analyze_email raised
GenerateReplyFails ==
    /\ pc = "raised"
    /\ request.endpoint = "generate_reply"
    /\ http_response' = HTTPException(HTTP_500_INTERNAL_SERVER_ERROR,
                                      <<"E","r","r","o","r"," ","g","e","n","e","r","a","t","i","n","g"," ","r","e","p","l","y",":"," ">> \o <<Message>>)
    /\ pc' = "responded"
    /\ UNCHANGED <<hash_seed, email_text, additional_details, request_data, subject,
                   entities, rule_based_urgency, rule_based_intent, calls, response,
                   cleaned, parsed, result, request, earlier, service>>

\* src/main.py lines 81-116: the whole handler; the call of line 98 passes
\* additional_details and request_data by keyword
ExtractEntitiesEndpoint ==
    /\ pc = "request"
    /\ request.endpoint = "extract_entities"
    /\ email_text' = email_text_of(request)
    /\ request_data' = request_data_of(request)
    /\ http_response' =
        IF call_raises(extract_entities_parameters, 1,
                       {"additional_details", "request_data"})
        THEN HTTPException(HTTP_500_INTERNAL_SERVER_ERROR,
                           <<"E","r","r","o","r"," ","p","r","o","c","e","s","s","i","n","g"," ","t","h","e"," ","r","e","q","u","e","s","t",":"," ">> \o <<Message>>)
        ELSE entity_extraction_response(extract_entities(email_text'))
    /\ pc' = "responded"
    /\ UNCHANGED <<hash_seed, additional_details, subject, entities,
                   rule_based_urgency, rule_based_intent, calls, response, cleaned,
                   parsed, result, request, earlier, service>>

\* analyze_email runs between GenerateReplyCalls and the handler's return;
\* it is called without request_data, so line 341 is not reached
EndpointsNext ==
    \/ GenerateReplyCalls
    \/ Prepare
    \/ PrimarySucceeds
    \/ PrimaryFails
    \/ FallbackSucceeds
    \/ FallbackFails
    \/ ParseFails
    \/ ParseRaises
    \/ Normalize
    \/ GenerateReplyReturns
    \/ GenerateReplyFails
    \/ ExtractEntitiesEndpoint

SpecEndpoints == EndpointsInit /\ [][EndpointsNext]_vars

responded(endpoint) == pc = "responded" /\ request.endpoint = endpoint

\* C12: when the model's generated_reply is an object with a "body", the
\* reply /generate_reply delivers is that body; the apology text is delivered
\* only when the model's reply is absent, empty, or a non-string that is no
\* such object.
C12_ReplyShape ==
    (responded("generate_reply") /\ parsed # None /\ parsed.ok /\ is_dict(parsed.value)) =>
        LET answer == parsed.value.v
            reply == IF <<"g","e","n","e","r","a","t","e","d","_","r","e","p","l","y">> \in DOMAIN answer
                     THEN answer[<<"g","e","n","e","r","a","t","e","d","_","r","e","p","l","y">>] ELSE None
            structured == is_dict(reply) /\ <<"b","o","d","y">> \in DOMAIN reply.v
            delivered == http_response.body[<<"g","e","n","e","r","a","t","e","d","_","r","e","p","l","y">>]
            apology == Str(<<"I"," ","r","e","c","e","i","v","e","d"," ","y","o","u","r"," ","e","m","a","i","l"," ","a","n","d"," ","w","i","l","l"," ","g","e","t"," ","b","a","c","k"," ","t","o"," ","y","o","u"," ","s","h","o","r","t","l","y",".">>)
        IN  /\ http_response.status = 200
            /\ structured => delivered = reply.v[<<"b","o","d","y">>]
            /\ delivered = apology =>
                    \/ reply \in {None, Str(<<>>), apology}
                    \/ ~is_str(reply) /\ ~structured

\* C13: /extract_entities answers every valid request with the classification
\* fields (intent, urgency, sentiment, keywords, entities) and no
\* generated_reply; it does not end in an error.
C13_ExtractEntitiesResponds ==
    responded("extract_entities") =>
        /\ http_response.status = 200
        /\ {<<"i","n","t","e","n","t">>, <<"u","r","g","e","n","c","y">>, <<"s","e","n","t","i","m","e","n","t">>, <<"k","e","y","w","o","r","d","s">>, <<"e","n","t","i","t","i","e","s">>}
                \subseteq DOMAIN http_response.body
        /\ <<"g","e","n","e","r","a","t","e","d","_","r","e","p","l","y">> \notin DOMAIN http_response.body

-----------------------------------------------------------------------------
(* analyze_email called twice with the same arguments, the models doing    *)
(* the second time what they did the first time; the second call may be    *)
(* served by another process, with another hash seed.                      *)

\* the first call is served by the process whose hash seed is 0
RunsInit ==
    /\ pc = "start"
    /\ hash_seed = 0
    /\ email_text \in { <<"S","u","b","j","e","c","t",":"," ","P","r","i","n","t","e","r"," ","i","s","s","u","e","\n","\n","I","t"," ","i","s"," ","u","r","g","e","n","t">>, <<"T","h","a","n","k","s"," ","f","o","r"," ","t","h","e"," ","u","p","d","a","t","e">> }
    /\ additional_details \in {
            None,
            OrderedDict(<<item(<<"b","u","s","i","n","e","s","s","_","s","e","r","v","i","c","e">>, Str(<<"D","e","s","k">>)),
                          item(<<"s","t","o","r","e","_","i","d">>, Str(<<"1","1","2">>))>>) }
    /\ request_data = None
    /\ subject = <<>>
    /\ entities = EmptyDict
    /\ rule_based_urgency = <<>>
    /\ rule_based_intent = <<>>
    /\ calls = <<>>
    /\ response = None
    /\ cleaned = None
    /\ parsed = None
    /\ result = None
    /\ request = None
    /\ http_response = None
    /\ earlier = None
    /\ service = None

\* the caller keeps what the first call returned and calls again: the locals
\* of analyze_email (lines 295-350) are new, the module's tables are as before
Rerun ==
    /\ pc = "done"
    /\ earlier = None
    /\ earlier' = [hash_seed |-> hash_seed, calls |-> calls, response |-> response,
                   result |-> result]
    /\ hash_seed' \in 0..MaxHashSeed
    /\ subject' = <<>>
    /\ entities' = EmptyDict
    /\ rule_based_urgency' = <<>>
    /\ rule_based_intent' = <<>>
    /\ calls' = <<>>
    /\ response' = None
    /\ cleaned' = None
    /\ parsed' = None
    /\ result' = None
    /\ pc' = "start"
    /\ UNCHANGED <<email_text, additional_details, request_data, request,
                   http_response, service>>

\* analyze_email is called without request_data, so line 341 is not reached
RunsNext ==
    \/ Prepare
    \/ PrimarySucceeds
    \/ PrimaryFails
    \/ FallbackSucceeds
    \/ FallbackFails
    \/ ParseFails
    \/ ParseRaises
    \/ Normalize
    \/ Rerun

SpecRuns == RunsInit /\ [][RunsNext]_vars

\* C14: a second run of analyze_email on the same email text and additional
\* details, with the same model outcomes, returns the record the first run
\* returned.
C14_Deterministic ==
    (returned /\ earlier # None /\ calls = earlier.calls /\ response = earlier.response) =>
        result = earlier.result

\* a second run under another hash seed, of an email with a HIGH and a MEDIUM
\* keyword, whose model answer was parsed and normalized
C14_Witness ==
    /\ normalized /\ earlier # None
    /\ earlier.hash_seed = 0 /\ hash_seed = 1
    /\ contains(lower(email_text), <<"i","s","s","u","e">>) /\ contains(lower(email_text), <<"u","r","g","e","n","t">>)
    /\ \A k \in DOMAIN parsed.value.v : k # <<"u","r","g","e","n","c","y">>
    /\ result = earlier.result

-----------------------------------------------------------------------------
(* The rule-based classifier on its own: determine_urgency and              *)
(* determine_intent applied to texts made of up to MaxPhrases phrases.      *)

Phrases == {
    <<"U","R","G","E","N","T">>, <<"p","r","i","o","r","i","t","y">>, <<"s","o","o","n">>, <<"F","o","l","l","o","w"," ","u","p">>, <<"e","r","r","o","r">>, <<"p","l","e","a","s","e">>,
    <<"h","e","l","l","o">>, <<"d","o","w","n","l","o","a","d">>, <<"w","h","a","t">>, <<"n","e","x","t"," ","w","e","e","k">>, <<"i","n","v","e","s","t","i","g","a","t","e">> }

join(text, phrase) == IF text = <<>> THEN phrase ELSE text \o <<" ">> \o phrase

RECURSIVE TextsOf(_)
TextsOf(n) ==
    IF n = 0 THEN {<<>>}
    ELSE LET shorter == TextsOf(n - 1)
         IN  shorter \cup {join(text, phrase) : text \in shorter, phrase \in Phrases}

RulesInit ==
    /\ pc = "text"
    /\ hash_seed \in 0..MaxHashSeed
    /\ email_text \in TextsOf(MaxPhrases)
    /\ additional_details = None
    /\ request_data = None
    /\ subject = <<>>
    /\ entities = EmptyDict
    /\ rule_based_urgency = <<>>
    /\ rule_based_intent = <<>>
    /\ calls = <<>>
    /\ response = None
    /\ cleaned = None
    /\ parsed = None
    /\ result = None
    /\ request = None
    /\ http_response = None
    /\ earlier = None
    /\ service = None

Classify ==
    /\ pc = "text"
    /\ rule_based_urgency' = determine_urgency(email_text)
    /\ rule_based_intent' = determine_intent(email_text)
    /\ pc' = "classified"
    /\ UNCHANGED <<request, http_response, earlier, service>>
    /\ UNCHANGED <<hash_seed, email_text, additional_details, request_data, subject,
                   entities, calls, response, cleaned, parsed, result>>

RulesNext == Classify

SpecRules == RulesInit /\ [][RulesNext]_vars

\* whether some keyword of the set occurs in the lower-cased text
occurs_in(keywords, text) == \E k \in keywords : contains(lower(text), k)

\* C8: determine_urgency is High whenever a HIGH keyword occurs in the
\* lower-cased text, whatever MEDIUM keywords occur; Medium when no HIGH
\* keyword and some MEDIUM keyword occurs; Low otherwise; under every set
\* iteration order.
C8_UrgencyPrecedence ==
    pc = "classified" =>
        LET high == occurs_in(Range(HIGH_URGENCY_KEYWORDS), email_text)
            medium == occurs_in(Range(MEDIUM_URGENCY_KEYWORDS), email_text)
        IN  /\ high => rule_based_urgency = <<"H","i","g","h">>
            /\ (~high /\ medium) => rule_based_urgency = <<"M","e","d","i","u","m">>
            /\ (~high /\ ~medium) => rule_based_urgency = <<"L","o","w">>

\* a text with a HIGH keyword ("urgent") and a MEDIUM-only keyword
\* ("priority"), classified under an iteration order other than the written one
C8_Witness ==
    /\ pc = "classified"
    /\ hash_seed = 1
    /\ contains(lower(email_text), <<"u","r","g","e","n","t">>)
    /\ contains(lower(email_text), <<"p","r","i","o","r","i","t","y">>)
    /\ rule_based_urgency = <<"H","i","g","h">>

\* C9: determine_intent is Follow-up whenever a follow-up keyword occurs, even
\* with incident keywords; Incident when no follow-up keyword and an incident
\* keyword occurs, even with request, question or change keywords; and Other
\* exactly when no keyword set matches.
C9_IntentPrecedence ==
    pc = "classified" =>
        LET follow_up == occurs_in(intent_keywords(<<"f","o","l","l","o","w","-","u","p">>), email_text)
            incident == occurs_in(intent_keywords(<<"i","n","c","i","d","e","n","t">>), email_text)
            any_set == \E e \in Range(INTENT_KEYWORDS) : occurs_in(e.keywords, email_text)
        IN  /\ follow_up => rule_based_intent = <<"F","o","l","l","o","w","-","u","p">>
            /\ (~follow_up /\ incident) => rule_based_intent = <<"I","n","c","i","d","e","n","t">>
            /\ (rule_based_intent = <<"O","t","h","e","r">>) <=> ~any_set

\* a text with a follow-up keyword and an incident keyword, classified Follow-up
C9_Witness ==
    /\ pc = "classified"
    /\ contains(lower(email_text), <<"f","o","l","l","o","w"," ","u","p">>)
    /\ contains(lower(email_text), <<"e","r","r","o","r">>)
    /\ rule_based_intent = <<"F","o","l","l","o","w","-","u","p">>

-----------------------------------------------------------------------------
(* The response sanitizer on its own: clean_json_response applied to the    *)
(* completion texts, and json.loads applied to what it returns.             *)

SanitizeInit ==
    /\ pc = "raw"
    /\ hash_seed = 0
    /\ email_text = <<>>
    /\ additional_details = None
    /\ request_data = None
    /\ subject = <<>>
    /\ entities = EmptyDict
    /\ rule_based_urgency = <<>>
    /\ rule_based_intent = <<>>
    /\ calls = <<>>
    /\ response \in {Completion(PRIMARY_MODEL, text, object_for(text)) :
                        text \in CompletionTexts}
    /\ cleaned = None
    /\ parsed = None
    /\ result = None
    /\ request = None
    /\ http_response = None
    /\ earlier = None
    /\ service = None

Sanitize ==
    /\ pc = "raw"
    /\ cleaned' = Str(clean_json_response(response.v.text))
    /\ parsed' = json_loads(cleaned'.v, response.v.object)
    /\ pc' = "cleaned"
    /\ UNCHANGED <<request, http_response, earlier, service>>
    /\ UNCHANGED <<hash_seed, email_text, additional_details, request_data, subject,
                   entities, rule_based_urgency, rule_based_intent, calls, response,
                   result>>

SanitizeNext == Sanitize

SpecSanitize == SanitizeInit /\ [][SanitizeNext]_vars

\* C10: for every input text, what clean_json_response returns is a text
\* that json.loads accepts.
C10_SanitizerTotal == pc = "cleaned" => parsed.ok

-----------------------------------------------------------------------------
(* normalize_business_service on its own *)

ServiceNames == {
    <<"I","T","S","M">>, <<"i","t","s","m">>, <<"H","e","l","p"," ","D","e","s","k">>, <<"h","e","l","p"," ","d","e","s","k">>, <<"D","e","s","k">>, <<"S","O","C">>, <<"s","o","c">>,
    <<"C","u","s","t","o","m","e","r"," ","S","e","r","v","i","c","e">>, <<"c","u","s","t","o","m","e","r">>, <<"M","a","n","a","g","e","m","e","n","t">>, <<"I","T"," ","O","p","e","r","a","t","i","o","n","s">>,
    <<"C","o","m","p","l","i","a","n","c","e">>, <<"r","i","s","k">>, <<"H","R">>, <<"P","a","y","r","o","l","l">>, <<"P","r","i","n","t","i","n","g"," ","S","e","r","v","i","c","e">>, <<"I","T","S","M"," ","t","e","a","m">>,
    <<>> }

ServiceInit ==
    /\ pc = "start"
    /\ \E name \in ServiceNames : \E left, right \in { <<>>, <<" ">>, <<"\t">>, <<"\n"," ">> } :
            service = left \o name \o right
    /\ hash_seed = 0
    /\ email_text = <<>>
    /\ additional_details = None
    /\ request_data = None
    /\ subject = <<>>
    /\ entities = EmptyDict
    /\ rule_based_urgency = <<>>
    /\ rule_based_intent = <<>>
    /\ calls = <<>>
    /\ response = None
    /\ cleaned = None
    /\ parsed = None
    /\ result = None
    /\ request = None
    /\ http_response = None
    /\ earlier = None

NormalizeBusinessService ==
    /\ pc = "start"
    /\ result' = Str(normalize_business_service(service))
    /\ pc' = "done"
    /\ UNCHANGED <<hash_seed, email_text, additional_details, request_data, subject,
                   entities, rule_based_urgency, rule_based_intent, calls, response,
                   cleaned, parsed, request, http_response, earlier, service>>

SpecService == ServiceInit /\ [][NormalizeBusinessService]_vars

\* the first category, in the order of the table, one of whose synonyms
\* equals the text or contains it when letter case is ignored; 0 if none
matching_category(name) ==
    LET table == SERVICENOW_BUSINESS_SERVICES
        matching == {i \in DOMAIN table :
                        \E j \in DOMAIN table[i].services :
                            \/ table[i].services[j] = name
                            \/ contains(lower(table[i].services[j]), lower(name))}
    IN  IF matching = {} THEN 0 ELSE CHOOSE i \in matching : \A j \in matching : i <= j

\* C15 as stated: normalize_business_service returns the first category one
\* of whose synonyms equals or contains (case-insensitively) the trimmed
\* input, otherwise the input unchanged; "ITSM" gives "IT Service Management".
C15_NormalizeOrUnchanged ==
    pc = "done" =>
        /\ result.v = IF matching_category(strip(service)) # 0
                      THEN SERVICENOW_BUSINESS_SERVICES[matching_category(strip(service))].category
                      ELSE service
        /\ service = <<"I","T","S","M">> => result.v = <<"I","T"," ","S","e","r","v","i","c","e"," ","M","a","n","a","g","e","m","e","n","t">>

\* C15, amended: the same, the text returned when no category matches being
\* the trimmed input.
C15_NormalizeOrTrimmed ==
    pc = "done" =>
        /\ result.v = IF matching_category(strip(service)) # 0
                      THEN SERVICENOW_BUSINESS_SERVICES[matching_category(strip(service))].category
                      ELSE strip(service)
        /\ service = <<"I","T","S","M">> => result.v = <<"I","T"," ","S","e","r","v","i","c","e"," ","M","a","n","a","g","e","m","e","n","t">>

\* a padded synonym part in another letter case was normalized to its category
C15_Witness ==
    /\ pc = "done"
    /\ service = <<" ","h","e","l","p"," ","d","e","s","k","\t">>
    /\ result = Str(<<"I","T"," ","S","e","r","v","i","c","e"," ","M","a","n","a","g","e","m","e","n","t">>)

=============================================================================
